---- MODULE Spec2Model ----
(***************************************************************************)
(* Model of the crypto-chat backend: the certificate endpoints             *)
(* (app/api/certificates.py, app/utils/certificate.py) over the users      *)
(* table (app/models/user.py), and the Socket.IO connection registry       *)
(* (app/socket/events.py), the message store and its history              *)
(* (app/api/messages.py, app/utils/crypto.py), the token checks and the    *)
(* login endpoints (app/utils/security.py, app/api/auth.py).  Handlers     *)
(* are atomic steps, except where a part of the model takes them apart at  *)
(* their awaits and keeps the suspended locals in inflight.                *)
(*                                                                         *)
(* Python values are modelled as follows.  An Optional column or value is  *)
(* a sequence of length at most one: None is <<>>, a value v is <<v>>.     *)
(* A PEM text is a record whose "type" field is the PEM label; parsing it  *)
(* as a certificate succeeds exactly when the label is CERTIFICATE.        *)
(* Time is counted in whole seconds.                                       *)
(***************************************************************************)
EXTENDS Integers, Sequences, FiniteSets, TLC

\* ---------------------------------------------------------------- bounds
MaxTime == 3
MaxMessages == 1
MaxStored == 2

\* ------------------------------------------------------------ value sets
Users == {"alice", "bob", "carol"}
UnknownUserId == "ghost"
\* The users who call the certificate endpoints and submit CSRs.
CertCallers == {"alice", "bob"}
\* Socket.IO session ids; the transport hands out each one once.
Sids == {"s1", "s2", "s3"}
UnknownConversationId == 0
\* The get-or-create requests made: caller and requested peer.
ConversationRequests ==
  {<<"alice", "bob">>, <<"bob", "alice">>, <<"alice", "alice">>,
   <<"alice", UnknownUserId>>}
Keys == {"k1", "k2"}
NoCN == "<no common name>"

None == <<>>
Some(v) == <<v>>

\* The certificate bodies the CA or anyone else may have issued: serial
\* number, subject common name (NoCN when the subject has none) and notAfter.
CertBodies ==
  { [serial_number |-> 10, subject_cn |-> "alice", not_valid_after |-> 1],
    [serial_number |-> 171, subject_cn |-> NoCN, not_valid_after |-> 2] }

\* PEM texts a client can upload: certificates (signature_ok tells whether
\* the signature verifies under the CA public key), and text that does not
\* parse as a certificate.
CertificatePems ==
  { [type |-> "CERTIFICATE", serial_number |-> b.serial_number,
     subject_cn |-> b.subject_cn, public_key |-> k,
     not_valid_after |-> b.not_valid_after, signature_ok |-> ok] :
    b \in CertBodies, k \in Keys, ok \in BOOLEAN }
GarbagePem == [type |-> "GARBAGE"]
CsrPem(k) == [type |-> "CERTIFICATE REQUEST", public_key |-> k]
UploadPems == CertificatePems \cup {GarbagePem}

\* Texts the file at CA_CERT_PATH may hold: the certificate of the CA that
\* signs the users' certificates (AC1), another CA's, or no certificate.
CACertificatePem(name) ==
  [type |-> "CERTIFICATE", subject_cn |-> name, public_key |-> name]
CAFileTexts == {CACertificatePem("AC1"), CACertificatePem("AC2"), GarbagePem}

\* ------------------------------------------------------------------ state
VARIABLES
  users,             \* the users table: one row per registered user
  conversations,     \* the conversations table
  messages,          \* the messages table, in insertion order
  now,               \* the wall clock read by datetime.utcnow()
  response,          \* the operation handled last and what it returned
  connected_users,   \* events.py global: user id -> {sid, username}
  sid_conversations, \* events.py global: sid -> set of conversation ids
  sio_rooms,         \* the Socket.IO server's rooms: pairs <<sid, room>>
  sid_state,         \* transport state of each sid: "new", "open", "closed"
  authenticated,     \* history: sid -> the user its accepted connect verified
  last_presence,     \* history: user -> the presence event emitted last for it
  emitted,           \* events emitted by the handler that ran last
  ca_file,           \* the file at CA_CERT_PATH: None when absent, else its text
  ca_certificate,    \* certificate.py global _ca_certificate
  inflight           \* handlers suspended at an await: caller -> its locals

dbVars == <<users, conversations, messages>>
sockVars == <<connected_users, sid_conversations, sio_rooms, sid_state,
              authenticated, last_presence, emitted>>
auxVars == <<ca_file, ca_certificate, inflight>>
vars == <<users, conversations, messages, now, response, connected_users,
          sid_conversations, sio_rooms, sid_state, authenticated, last_presence,
          emitted, ca_file, ca_certificate, inflight>>

\* A row as signup creates it: the certificate columns take their defaults.
NewUser ==
  [csr |-> None, certificate |-> None, certificate_status |-> "none",
   certificate_expires_at |-> None, certificate_serial |-> None,
   is_online |-> FALSE]

NoResponse == [op |-> "none"]

\* ------------------------------------------------- utils/certificate.py
LoadPemX509Certificate(pem) == pem.type = "CERTIFICATE"
LoadPemX509Csr(pem) == pem.type = "CERTIFICATE REQUEST"

\* True iff the text parses and its signature verifies under the CA key;
\* every failure, parse errors included, is swallowed into False.
verify_certificate(cert_pem) ==
  IF LoadPemX509Certificate(cert_pem) THEN cert_pem.signature_ok ELSE FALSE

\* Variant: a certificate counts as expired from notAfter itself.
is_certificate_expired_Inclusive(cert_pem, utcnow) == utcnow >= cert_pem.not_valid_after

is_certificate_expired(cert_pem, utcnow) == utcnow > cert_pem.not_valid_after

HexDigits ==
  <<"0", "1", "2", "3", "4", "5", "6", "7", "8", "9", "a", "b", "c", "d", "e", "f">>

DecDigits == <<"0", "1", "2", "3", "4", "5", "6", "7", "8", "9">>

\* Variant: the serial is rendered in decimal.
RECURSIVE FormatHex_Decimal(_)
FormatHex_Decimal(n) ==
  IF n < 10 THEN <<DecDigits[n + 1]>>
  ELSE FormatHex_Decimal(n \div 10) \o <<DecDigits[(n % 10) + 1]>>

RECURSIVE FormatHex(_)
FormatHex(n) ==
  IF n < 16 THEN <<HexDigits[n + 1]>>
  ELSE FormatHex(n \div 16) \o <<HexDigits[(n % 16) + 1]>>

extract_certificate_info(cert_pem, utcnow) ==
  [serial |-> FormatHex(cert_pem.serial_number),
   subject |-> IF cert_pem.subject_cn = NoCN THEN None ELSE Some(cert_pem.subject_cn),
   not_after |-> cert_pem.not_valid_after,
   is_expired |-> utcnow > cert_pem.not_valid_after]

verify_csr_matches_cert(csr_pem, cert_pem) ==
  IF LoadPemX509Csr(csr_pem) /\ LoadPemX509Certificate(cert_pem)
  THEN csr_pem.public_key = cert_pem.public_key
  ELSE FALSE

\* Python truthiness of an Optional text column.
Truthy(col) == col # None

\* ------------------------------------------------ api/certificates.py
HttpError(op, u, arg, detail) ==
  [op |-> op, user |-> u, arg |-> arg, status_code |-> 400, detail |-> detail]

\* Variant: the CSR is looked for before the signature is verified.
UploadOutcome_CsrFirst(row, cert_pem, utcnow) ==
  IF ~Truthy(row.csr) THEN "No CSR found for this user. Cannot verify certificate."
  ELSE IF ~verify_certificate(cert_pem) THEN "Certificate is not signed by the CA"
  ELSE IF ~verify_csr_matches_cert(row.csr[1], cert_pem) THEN "Certificate does not match your CSR"
  ELSE IF is_certificate_expired(cert_pem, utcnow) THEN "Certificate has expired"
  ELSE "ok"

\* Variant: the expiry check is missing.
UploadOutcome_NoExpiryCheck(row, cert_pem, utcnow) ==
  IF ~verify_certificate(cert_pem) THEN "Certificate is not signed by the CA"
  ELSE IF ~Truthy(row.csr) THEN "No CSR found for this user. Cannot verify certificate."
  ELSE IF ~verify_csr_matches_cert(row.csr[1], cert_pem) THEN "Certificate does not match your CSR"
  ELSE "ok"

\* Variant: the key comparison is skipped when the user has no CSR.
UploadOutcome_NoCsrRequired(row, cert_pem, utcnow) ==
  IF ~verify_certificate(cert_pem) THEN "Certificate is not signed by the CA"
  ELSE IF Truthy(row.csr) /\ ~verify_csr_matches_cert(row.csr[1], cert_pem)
       THEN "Certificate does not match your CSR"
  ELSE IF is_certificate_expired(cert_pem, utcnow) THEN "Certificate has expired"
  ELSE "ok"

UploadOutcome(row, cert_pem, utcnow) ==
  IF ~verify_certificate(cert_pem) THEN "Certificate is not signed by the CA"
  ELSE IF ~Truthy(row.csr) THEN "No CSR found for this user. Cannot verify certificate."
  ELSE IF ~verify_csr_matches_cert(row.csr[1], cert_pem) THEN "Certificate does not match your CSR"
  ELSE IF is_certificate_expired(cert_pem, utcnow) THEN "Certificate has expired"
  ELSE "ok"

\* Variant: the certificate column is written before the checks run, so a
\* rejected upload leaves the uploaded text behind.
upload_certificate_PartialWrite(u, cert_pem) ==
  LET outcome == UploadOutcome(users[u], cert_pem, now)
      cert_info == extract_certificate_info(cert_pem, now)
  IN  /\ IF outcome # "ok"
         THEN /\ response' = HttpError("upload_certificate", u, cert_pem, outcome)
              /\ users' = [users EXCEPT ![u].certificate = Some(cert_pem)]
         ELSE /\ users' = [users EXCEPT ![u].certificate = Some(cert_pem),
                                        ![u].certificate_status = "active",
                                        ![u].certificate_expires_at = Some(cert_info.not_after),
                                        ![u].certificate_serial = Some(cert_info.serial)]
              /\ response' = [op |-> "upload_certificate", user |-> u, arg |-> cert_pem,
                              status_code |-> 200,
                              body |-> [status |-> "active",
                                        expires_at |-> Some(cert_info.not_after),
                                        serial |-> Some(cert_info.serial),
                                        subject |-> cert_info.subject]]
      /\ UNCHANGED <<now, auxVars, conversations, messages, sockVars>>

upload_certificate(u, cert_pem) ==
  LET outcome == UploadOutcome(users[u], cert_pem, now)
      cert_info == extract_certificate_info(cert_pem, now)
  IN  /\ IF outcome # "ok"
         THEN /\ response' = HttpError("upload_certificate", u, cert_pem, outcome)
              /\ UNCHANGED users
         ELSE /\ users' = [users EXCEPT ![u].certificate = Some(cert_pem),
                                        ![u].certificate_status = "active",
                                        ![u].certificate_expires_at = Some(cert_info.not_after),
                                        ![u].certificate_serial = Some(cert_info.serial)]
              /\ response' = [op |-> "upload_certificate", user |-> u, arg |-> cert_pem,
                              status_code |-> 200,
                              body |-> [status |-> "active",
                                        expires_at |-> Some(cert_info.not_after),
                                        serial |-> Some(cert_info.serial),
                                        subject |-> cert_info.subject]]
      /\ UNCHANGED <<now, auxVars, conversations, messages, sockVars>>

\* Variant: the read persists the expiry it has just computed.
get_certificate_status_Persist(u) ==
  LET row == users[u]
      expired == /\ row.certificate_status = "active"
                 /\ Truthy(row.certificate)
                 /\ is_certificate_expired(row.certificate[1], now)
  IN  /\ response' =
           [op |-> "get_certificate_status", user |-> u, arg |-> u, status_code |-> 200,
            body |-> [status |-> IF expired THEN "expired"
                                 ELSE IF row.certificate_status = "" THEN "none"
                                      ELSE row.certificate_status,
                      expires_at |-> row.certificate_expires_at,
                      serial |-> row.certificate_serial]]
      /\ users' = IF expired THEN [users EXCEPT ![u].certificate_status = "expired"]
                  ELSE users
      /\ UNCHANGED <<now, auxVars, conversations, messages, sockVars>>

\* Variant: expiry is reported whatever the stored status is.
get_certificate_status_AnyStatus(u) ==
  LET row == users[u]
  IN  /\ response' =
           [op |-> "get_certificate_status", user |-> u, arg |-> u, status_code |-> 200,
            body |-> [status |->
                        IF /\ Truthy(row.certificate)
                           /\ is_certificate_expired(row.certificate[1], now)
                        THEN "expired"
                        ELSE IF row.certificate_status = "" THEN "none"
                             ELSE row.certificate_status,
                      expires_at |-> row.certificate_expires_at,
                      serial |-> row.certificate_serial]]
      /\ UNCHANGED <<users, now, auxVars, conversations, messages, sockVars>>

get_certificate_status(u) ==
  LET row == users[u]
  IN  /\ response' =
           [op |-> "get_certificate_status", user |-> u, arg |-> u, status_code |-> 200,
            body |-> [status |->
                        IF /\ row.certificate_status = "active"
                           /\ Truthy(row.certificate)
                           /\ is_certificate_expired(row.certificate[1], now)
                        THEN "expired"
                        ELSE IF row.certificate_status = "" THEN "none"
                             ELSE row.certificate_status,
                      expires_at |-> row.certificate_expires_at,
                      serial |-> row.certificate_serial]]
      /\ UNCHANGED <<users, now, auxVars, conversations, messages, sockVars>>

HttpNotFound(op, u, arg, detail) ==
  [op |-> op, user |-> u, arg |-> arg, status_code |-> 404, detail |-> detail]

\* Variant: any stored certificate is served, whatever the status column.
get_user_certificate_AnyStatus(u, user_id) ==
  /\ response' =
       IF user_id \notin DOMAIN users
       THEN HttpNotFound("get_user_certificate", u, user_id, "User not found")
       ELSE LET user == users[user_id]
            IN  IF ~Truthy(user.certificate)
                THEN HttpNotFound("get_user_certificate", u, user_id,
                                  "User does not have an active certificate")
                ELSE [op |-> "get_user_certificate", user |-> u, arg |-> user_id,
                      status_code |-> 200,
                      body |-> [user_id |-> user_id,
                                certificate |-> user.certificate[1],
                                status |-> IF is_certificate_expired(user.certificate[1], now)
                                           THEN "expired"
                                           ELSE user.certificate_status,
                                expires_at |-> user.certificate_expires_at]]
  /\ UNCHANGED <<users, now, auxVars, conversations, messages, sockVars>>

get_user_certificate(u, user_id) ==
  /\ response' =
       IF user_id \notin DOMAIN users
       THEN HttpNotFound("get_user_certificate", u, user_id, "User not found")
       ELSE LET user == users[user_id]
            IN  IF ~Truthy(user.certificate) \/ user.certificate_status # "active"
                THEN HttpNotFound("get_user_certificate", u, user_id,
                                  "User does not have an active certificate")
                ELSE [op |-> "get_user_certificate", user |-> u, arg |-> user_id,
                      status_code |-> 200,
                      body |-> [user_id |-> user_id,
                                certificate |-> user.certificate[1],
                                status |-> IF is_certificate_expired(user.certificate[1], now)
                                           THEN "expired"
                                           ELSE user.certificate_status,
                                expires_at |-> user.certificate_expires_at]]
  /\ UNCHANGED <<users, now, auxVars, conversations, messages, sockVars>>

get_my_csr(u) ==
  /\ response' =
       IF ~Truthy(users[u].csr)
       THEN HttpNotFound("get_my_csr", u, u, "No CSR found for this user")
       ELSE [op |-> "get_my_csr", user |-> u, arg |-> u, status_code |-> 200,
             body |-> [csr |-> users[u].csr[1]]]
  /\ UNCHANGED <<users, now, auxVars, conversations, messages, sockVars>>

\* ------------------------------------------- writers outside these files
\* A CSR is submitted for an identity: the new request supersedes any
\* earlier one and the lifecycle state becomes pending.
SubmitCSR(u, k) ==
  /\ users' = [users EXCEPT ![u].csr = Some(CsrPem(k)),
                            ![u].certificate_status = "pending"]
  /\ response' = NoResponse
  /\ UNCHANGED <<now, auxVars, conversations, messages, sockVars>>

\* Administrative revocation of an active certificate.
Revoke(u) ==
  /\ users[u].certificate_status = "active"
  /\ users' = [users EXCEPT ![u].certificate_status = "revoked"]
  /\ response' = NoResponse
  /\ UNCHANGED <<now, auxVars, conversations, messages, sockVars>>

\* The clock advances.
Tick ==
  /\ now < MaxTime
  /\ now' = now + 1
  /\ response' = NoResponse
  /\ UNCHANGED <<users, conversations, messages, sockVars, auxVars>>

\* ------------------------------------------------- utils/security.py
\* A token is absent (None), text that does not decode under the server
\* secret (BadToken), or a signed payload with a type and a subject.
BadToken == [kind |-> "undecodable"]
SignedTokens ==
  [kind : {"jwt"}, type : {"access", "refresh"}, sub : Users \cup {UnknownUserId}]
Tokens == {BadToken} \cup SignedTokens

\* Variant: the type claim of the payload is not compared.
verify_token_AnyType(token, token_type) ==
  IF token.kind # "jwt" THEN None
  ELSE Some(token)

verify_token(token, token_type) ==
  IF token.kind # "jwt" THEN None
  ELSE IF token.type # token_type THEN None
  ELSE Some(token)

\* The id of the user the token authenticates, or None.
get_user_from_token(token) ==
  LET payload == verify_token(token, "access")
  IN  IF payload = None THEN None
      ELSE IF payload[1].sub \in DOMAIN users THEN Some(payload[1].sub)
      ELSE None

\* --------------------------------------------------- socket/events.py
\* The id of the user registered under this sid, or None: a scan of
\* connected_users for an entry holding the sid, then a lookup of the row.
get_user_from_sid(sid) ==
  LET hits == {uid \in DOMAIN connected_users : connected_users[uid].sid = sid}
  IN  IF hits = {} THEN None
      ELSE LET user_id == CHOOSE uid \in hits : TRUE
           IN  IF user_id \in DOMAIN users THEN Some(user_id) ELSE None

DictSet(d, k, v) == [x \in DOMAIN d \cup {k} |-> IF x = k THEN v ELSE d[x]]
DictDel(d, k) == [x \in DOMAIN d \ {k} |-> d[x]]

\* sio.emit without a room reaches every connected sid but skip_sid.
Broadcast(event, data, skip_sid) ==
  [event |-> event, data |-> data,
   to |-> {s \in Sids : sid_state[s] = "open"} \ {skip_sid}]

\* Variant: the sid gets its joined set before the token is looked at.
connect_RegisterBeforeVerify(sid, auth_token) ==
  /\ sid_state[sid] = "new"
  /\ LET user == IF auth_token = None THEN None
                 ELSE get_user_from_token(auth_token[1])
     IN  IF user = None
         THEN /\ sid_state' = [sid_state EXCEPT ![sid] = "closed"]
              /\ response' = [op |-> "connect", sid |-> sid, arg |-> auth_token,
                              result |-> FALSE]
              /\ emitted' = <<>>
              /\ sid_conversations' = DictSet(sid_conversations, sid, {})
              /\ UNCHANGED <<users, connected_users, authenticated, last_presence>>
         ELSE /\ users' = [users EXCEPT ![user[1]].is_online = TRUE]
              /\ connected_users' =
                   DictSet(connected_users, user[1], [sid |-> sid, username |-> user[1]])
              /\ sid_conversations' = DictSet(sid_conversations, sid, {})
              /\ sid_state' = [sid_state EXCEPT ![sid] = "open"]
              /\ authenticated' = DictSet(authenticated, sid, user[1])
              /\ last_presence' = [last_presence EXCEPT ![user[1]] = "user_online"]
              /\ emitted' = <<Broadcast("user_online", [user_id |-> user[1]], sid)>>
              /\ response' = [op |-> "connect", sid |-> sid, arg |-> auth_token,
                              result |-> TRUE]
  /\ UNCHANGED <<now, auxVars, conversations, messages, sio_rooms>>

connect(sid, auth_token) ==
  /\ sid_state[sid] = "new"
  /\ LET user == IF auth_token = None THEN None
                 ELSE get_user_from_token(auth_token[1])
     IN  IF user = None
         THEN /\ sid_state' = [sid_state EXCEPT ![sid] = "closed"]
              /\ response' = [op |-> "connect", sid |-> sid, arg |-> auth_token,
                              result |-> FALSE]
              /\ emitted' = <<>>
              /\ UNCHANGED <<users, connected_users, sid_conversations, authenticated,
                             last_presence>>
         ELSE /\ users' = [users EXCEPT ![user[1]].is_online = TRUE]
              /\ connected_users' =
                   DictSet(connected_users, user[1], [sid |-> sid, username |-> user[1]])
              /\ sid_conversations' = DictSet(sid_conversations, sid, {})
              /\ sid_state' = [sid_state EXCEPT ![sid] = "open"]
              /\ authenticated' = DictSet(authenticated, sid, user[1])
              /\ last_presence' = [last_presence EXCEPT ![user[1]] = "user_online"]
              /\ emitted' = <<Broadcast("user_online", [user_id |-> user[1]], sid)>>
              /\ response' = [op |-> "connect", sid |-> sid, arg |-> auth_token,
                              result |-> TRUE]
  /\ UNCHANGED <<now, auxVars, conversations, messages, sio_rooms>>

disconnect(sid) ==
  /\ sid_state[sid] = "open"
  /\ LET hits == {uid \in DOMAIN connected_users : connected_users[uid].sid = sid}
         user_id == IF hits = {} THEN None ELSE Some(CHOOSE uid \in hits : TRUE)
     IN  /\ connected_users' =
              IF user_id = None THEN connected_users
              ELSE DictDel(connected_users, user_id[1])
         /\ sid_conversations' = DictDel(sid_conversations, sid)
         /\ users' =
              IF user_id # None /\ user_id[1] \in DOMAIN users
              THEN [users EXCEPT ![user_id[1]].is_online = FALSE]
              ELSE users
         /\ emitted' =
              IF user_id = None THEN <<>>
              ELSE <<Broadcast("user_offline", [user_id |-> user_id[1]], sid)>>
         /\ last_presence' =
              IF user_id = None THEN last_presence
              ELSE [last_presence EXCEPT ![user_id[1]] = "user_offline"]
         /\ response' = [op |-> "disconnect", sid |-> sid, arg |-> None,
                         result |-> user_id]
  \* the server drops a disconnected sid from every room
  /\ sio_rooms' = {m \in sio_rooms : m[1] # sid}
  /\ sid_state' = [sid_state EXCEPT ![sid] = "closed"]
  /\ authenticated' = DictDel(authenticated, sid)
  /\ UNCHANGED <<now, auxVars, conversations, messages>>

\* The conversation row with this id, or None.
ConversationById(conversation_id) ==
  LET hits == {c \in conversations : c.id = conversation_id}
  IN  IF hits = {} THEN None ELSE Some(CHOOSE c \in hits : TRUE)

SocketReturn(op, sid, arg, result) ==
  [op |-> op, sid |-> sid, arg |-> arg, result |-> result]

\* Variant: the participant check of lines 137-138 is left out.
join_conversation_NoParticipantCheck(sid, conversation_id) ==
  /\ sid_state[sid] = "open"
  /\ LET user == get_user_from_sid(sid)
         conversation == IF conversation_id = None THEN None
                         ELSE ConversationById(conversation_id[1])
         error ==
           IF conversation_id = None THEN "conversation_id required"
           ELSE IF user = None THEN "Not authenticated"
           ELSE IF conversation = None THEN "Conversation not found"
           ELSE "none"
     IN  IF error # "none"
         THEN /\ response' = SocketReturn("join_conversation", sid, conversation_id,
                                          [error |-> error])
              /\ UNCHANGED <<sio_rooms, sid_conversations>>
         ELSE /\ sio_rooms' = sio_rooms \cup {<<sid, conversation_id[1]>>}
              /\ IF sid \in DOMAIN sid_conversations
                 THEN /\ sid_conversations' =
                           [sid_conversations EXCEPT ![sid] = @ \cup {conversation_id[1]}]
                      /\ response' = SocketReturn("join_conversation", sid,
                                                  conversation_id, [success |-> TRUE])
                 ELSE \* sid_conversations[sid] raises KeyError
                      /\ response' = SocketReturn("join_conversation", sid,
                                                  conversation_id, [raised |-> "KeyError"])
                      /\ UNCHANGED sid_conversations
  /\ emitted' = <<>>
  /\ UNCHANGED <<dbVars, now, auxVars, connected_users, sid_state, authenticated,
                 last_presence>>

join_conversation(sid, conversation_id) ==
  /\ sid_state[sid] = "open"
  /\ LET user == get_user_from_sid(sid)
         conversation == IF conversation_id = None THEN None
                         ELSE ConversationById(conversation_id[1])
         error ==
           IF conversation_id = None THEN "conversation_id required"
           ELSE IF user = None THEN "Not authenticated"
           ELSE IF conversation = None THEN "Conversation not found"
           ELSE IF /\ conversation[1].participant1_id # user[1]
                   /\ conversation[1].participant2_id # user[1]
                THEN "Not a participant"
           ELSE "none"
     IN  IF error # "none"
         THEN /\ response' = SocketReturn("join_conversation", sid, conversation_id,
                                          [error |-> error])
              /\ UNCHANGED <<sio_rooms, sid_conversations>>
         ELSE /\ sio_rooms' = sio_rooms \cup {<<sid, conversation_id[1]>>}
              /\ IF sid \in DOMAIN sid_conversations
                 THEN /\ sid_conversations' =
                           [sid_conversations EXCEPT ![sid] = @ \cup {conversation_id[1]}]
                      /\ response' = SocketReturn("join_conversation", sid,
                                                  conversation_id, [success |-> TRUE])
                 ELSE \* sid_conversations[sid] raises KeyError
                      /\ response' = SocketReturn("join_conversation", sid,
                                                  conversation_id, [raised |-> "KeyError"])
                      /\ UNCHANGED sid_conversations
  /\ emitted' = <<>>
  /\ UNCHANGED <<dbVars, now, auxVars, connected_users, sid_state, authenticated,
                 last_presence>>

\* Variant: leaving discards the connection's whole joined set.
leave_conversation_ClearAll(sid, conversation_id) ==
  /\ sid_state[sid] = "open"
  /\ IF conversation_id = None
     THEN /\ response' = SocketReturn("leave_conversation", sid, conversation_id,
                                      [error |-> "conversation_id required"])
          /\ UNCHANGED <<sio_rooms, sid_conversations>>
     ELSE /\ sio_rooms' = sio_rooms \ {<<sid, conversation_id[1]>>}
          /\ sid_conversations' =
               IF sid \in DOMAIN sid_conversations
               THEN [sid_conversations EXCEPT ![sid] = {}]
               ELSE sid_conversations
          /\ response' = SocketReturn("leave_conversation", sid, conversation_id,
                                      [success |-> TRUE])
  /\ emitted' = <<>>
  /\ UNCHANGED <<dbVars, now, auxVars, connected_users, sid_state, authenticated,
                 last_presence>>

leave_conversation(sid, conversation_id) ==
  /\ sid_state[sid] = "open"
  /\ IF conversation_id = None
     THEN /\ response' = SocketReturn("leave_conversation", sid, conversation_id,
                                      [error |-> "conversation_id required"])
          /\ UNCHANGED <<sio_rooms, sid_conversations>>
     ELSE /\ sio_rooms' = sio_rooms \ {<<sid, conversation_id[1]>>}
          /\ sid_conversations' =
               IF sid \in DOMAIN sid_conversations
               THEN [sid_conversations EXCEPT ![sid] = @ \ {conversation_id[1]}]
               ELSE sid_conversations
          /\ response' = SocketReturn("leave_conversation", sid, conversation_id,
                                      [success |-> TRUE])
  /\ emitted' = <<>>
  /\ UNCHANGED <<dbVars, now, auxVars, connected_users, sid_state, authenticated,
                 last_presence>>

\* --------------------------------------------------- api/messages.py
\* uuid4 ids are modelled as fresh integers.
NewConversationId == Cardinality(conversations) + 1

get_or_create_conversation(u, user_id) ==
  /\ LET existing ==
           {c \in conversations :
              \/ c.participant1_id = u /\ c.participant2_id = user_id
              \/ c.participant1_id = user_id /\ c.participant2_id = u}
     IN  IF user_id = u
         THEN /\ response' = HttpError("get_or_create_conversation", u, user_id,
                                       "Cannot create conversation with yourself")
              /\ UNCHANGED conversations
         ELSE IF user_id \notin DOMAIN users
         THEN /\ response' = HttpNotFound("get_or_create_conversation", u, user_id,
                                          "User not found")
              /\ UNCHANGED conversations
         ELSE IF Cardinality(existing) > 1
         THEN \* scalar_one_or_none raises MultipleResultsFound
              /\ response' = [op |-> "get_or_create_conversation", user |-> u,
                              arg |-> user_id, status_code |-> 500,
                              detail |-> "MultipleResultsFound"]
              /\ UNCHANGED conversations
         ELSE LET conversation ==
                    IF existing # {} THEN CHOOSE c \in existing : TRUE
                    ELSE [id |-> NewConversationId, participant1_id |-> u,
                          participant2_id |-> user_id]
              IN  /\ conversations' = conversations \cup {conversation}
                  /\ response' = [op |-> "get_or_create_conversation", user |-> u,
                                  arg |-> user_id, status_code |-> 200,
                                  body |-> conversation]
  /\ UNCHANGED <<users, messages, now, auxVars, sockVars>>

Init ==
  /\ users = [u \in Users |-> NewUser]
  /\ conversations = {}
  /\ messages = <<>>
  /\ now = 0
  /\ response = NoResponse
  /\ connected_users = <<>>
  /\ sid_conversations = <<>>
  /\ sio_rooms = {}
  /\ sid_state = [s \in Sids |-> "new"]
  /\ authenticated = <<>>
  /\ last_presence = [u \in Users |-> "none"]
  /\ emitted = <<>>
  /\ ca_file = Some(CACertificatePem("AC1"))
  /\ ca_certificate = None
  /\ inflight = <<>>

\* Conversation ids a client may name: absent, unknown, or any id in use.
ConversationIdInputs ==
  {None, Some(UnknownConversationId)} \cup {Some(c.id) : c \in conversations}
ConversationIdsInUse == {Some(c.id) : c \in conversations}

NextCert ==
  \/ \E u \in CertCallers, p \in UploadPems : upload_certificate(u, p)
  \/ \E u \in CertCallers : get_certificate_status(u)
  \/ \E u \in CertCallers, t \in Users \cup {UnknownUserId} : get_user_certificate(u, t)
  \/ \E u \in CertCallers : get_my_csr(u)
  \/ \E u \in CertCallers, k \in Keys : SubmitCSR(u, k)
  \/ \E u \in CertCallers : Revoke(u)
  \/ Tick

SpecCert == Init /\ [][NextCert]_vars

\* The certificate utilities applied to inputs drawn from the pools, at a
\* clock reading fixed by the initial state.
Apply_is_certificate_expired(cert_pem) ==
  /\ response' = [op |-> "is_certificate_expired", arg |-> cert_pem,
                  result |-> is_certificate_expired(cert_pem, now)]
  /\ UNCHANGED <<dbVars, now, auxVars, sockVars>>

Apply_verify_certificate(pem) ==
  /\ response' = [op |-> "verify_certificate", arg |-> pem,
                  result |-> verify_certificate(pem)]
  /\ UNCHANGED <<dbVars, now, auxVars, sockVars>>

Apply_verify_csr_matches_cert(csr_pem, cert_pem) ==
  /\ response' = [op |-> "verify_csr_matches_cert", arg |-> <<csr_pem, cert_pem>>,
                  result |-> verify_csr_matches_cert(csr_pem, cert_pem)]
  /\ UNCHANGED <<dbVars, now, auxVars, sockVars>>

Apply_extract_certificate_info(cert_pem) ==
  /\ response' = [op |-> "extract_certificate_info", arg |-> cert_pem,
                  result |-> extract_certificate_info(cert_pem, now)]
  /\ UNCHANGED <<dbVars, now, auxVars, sockVars>>

InitPure ==
  /\ users = [u \in Users |-> NewUser]
  /\ conversations = {}
  /\ messages = <<>>
  /\ now \in 0..MaxTime
  /\ response = NoResponse
  /\ connected_users = <<>>
  /\ sid_conversations = <<>>
  /\ sio_rooms = {}
  /\ sid_state = [s \in Sids |-> "new"]
  /\ authenticated = <<>>
  /\ last_presence = [u \in Users |-> "none"]
  /\ emitted = <<>>
  /\ ca_file = Some(CACertificatePem("AC1"))
  /\ ca_certificate = None
  /\ inflight = <<>>

NextPure ==
  \/ \E p \in CertificatePems : Apply_is_certificate_expired(p)
  \/ \E p \in UploadPems : Apply_verify_certificate(p)
  \/ \E c \in {CsrPem(k) : k \in Keys} \cup {GarbagePem}, p \in UploadPems :
        Apply_verify_csr_matches_cert(c, p)
  \/ \E p \in CertificatePems : Apply_extract_certificate_info(p)

SpecPure == InitPure /\ [][NextPure]_vars

\* --------------------------------- utils/certificate.py, the CA certificate
\* A call returns a value or raises; both are kept as records.
Returned(v) == [returned |-> v]
Raised(e) == [raised |-> e]

\* Variant: the file is read on every call, whatever the cache holds.
LoadedCA_Reread ==
  IF ca_file = None THEN None
  ELSE IF ~LoadPemX509Certificate(ca_file[1]) THEN None
  ELSE ca_file

\* What load_ca_certificate leaves in _ca_certificate: the cached
\* certificate if there is one, else the certificate parsed from the file;
\* still None where open() or the parse raises.
LoadedCA ==
  IF ca_certificate # None THEN ca_certificate
  ELSE IF ca_file = None THEN None
  ELSE IF ~LoadPemX509Certificate(ca_file[1]) THEN None
  ELSE ca_file

LoadError == IF ca_file = None THEN "FileNotFoundError" ELSE "ValueError"

\* The key under which the certificate's signature verifies: users'
\* certificates with a good signature are signed by AC1.
SignerOf(cert_pem) == IF cert_pem.signature_ok THEN "AC1" ELSE "nobody"

\* Variant: a certificate that parses is taken as signed.
verify_signature_Unchecked(cert_pem, ca_cert) == LoadPemX509Certificate(cert_pem)

\* The try block of verify_certificate: parse, verify under the public
\* key of ca_cert, every exception turned into False.
verify_signature(cert_pem, ca_cert) ==
  IF LoadPemX509Certificate(cert_pem)
  THEN SignerOf(cert_pem) = ca_cert.public_key
  ELSE FALSE

load_ca_certificate ==
  /\ ca_certificate' = LoadedCA
  /\ response' = [op |-> "load_ca_certificate",
                  result |-> IF LoadedCA = None THEN Raised(LoadError)
                             ELSE Returned(LoadedCA[1])]
  /\ UNCHANGED <<dbVars, now, sockVars, ca_file, inflight>>

\* verify_certificate(cert_pem) with ca_cert left to its default.
verify_certificate_default(cert_pem) ==
  /\ ca_certificate' = LoadedCA
  /\ response' = [op |-> "verify_certificate", arg |-> cert_pem,
                  result |-> IF LoadedCA = None THEN Raised(LoadError)
                             ELSE Returned(verify_signature(cert_pem, LoadedCA[1]))]
  /\ UNCHANGED <<dbVars, now, sockVars, ca_file, inflight>>

get_ca_certificate_pem ==
  /\ response' = [op |-> "get_ca_certificate_pem",
                  result |-> IF ca_file = None THEN Raised("FileNotFoundError")
                             ELSE Returned(ca_file[1])]
  /\ UNCHANGED <<dbVars, now, sockVars, auxVars>>

\* The operator of the host replaces or removes the file.
WriteCAFile(text) ==
  /\ ca_file' = Some(text)
  /\ response' = [op |-> "WriteCAFile", arg |-> text]
  /\ UNCHANGED <<dbVars, now, sockVars, ca_certificate, inflight>>

RemoveCAFile ==
  /\ ca_file' = None
  /\ response' = [op |-> "RemoveCAFile"]
  /\ UNCHANGED <<dbVars, now, sockVars, ca_certificate, inflight>>

NextCA ==
  \/ load_ca_certificate
  \/ \E p \in UploadPems : verify_certificate_default(p)
  \/ get_ca_certificate_pem
  \/ \E t \in CAFileTexts : WriteCAFile(t)
  \/ RemoveCAFile

SpecCA == Init /\ [][NextCA]_vars


\* ---------------------------------------------------- utils/crypto.py
\* AES-256-GCM under the one server-wide key: the ciphertext is the
\* sealed plaintext followed by a tag that authenticates key, nonce and
\* plaintext together. The nonce is os.urandom(12): 96 random bits, a
\* value no earlier message has, modelled as the next unused number.
SERVER_KEY == "default-dev-key-change-in-prod"
NewNonce == Len(messages) + 1
Contents == {"hi", "yo"}

GcmTag(key, nonce, plaintext) == <<key, nonce, plaintext>>

encrypt_message(plaintext) ==
  <<[sealed |-> plaintext, tag |-> GcmTag(SERVER_KEY, NewNonce, plaintext)],
    NewNonce>>

\* The plaintext, or None where AESGCM.decrypt raises InvalidTag.
decrypt_message(ciphertext, nonce) ==
  IF ciphertext.tag = GcmTag(SERVER_KEY, nonce, ciphertext.sealed)
  THEN Some(ciphertext.sealed)
  ELSE None

\* ------------------------------------------------- models/message.py
\* Message(conversation_id, sender_id, ciphertext, nonce): the columns
\* the constructor is not given stay NULL, cipher_type and created_at
\* take their defaults, the id is fresh.
Message(conversation_id, sender_id, ciphertext, nonce) ==
  [id |-> Len(messages) + 1,
   conversation_id |-> conversation_id,
   sender_id |-> sender_id,
   ciphertext |-> ciphertext,
   nonce |-> nonce,
   signature |-> None,
   encrypted_key_sender |-> None,
   encrypted_key_recipient |-> None,
   cipher_type |-> "aes-256-gcm",
   created_at |-> now]

\* ------------------------------------------ socket/events.py, messaging
\* Variant: a room emit reaches only the sids the registry resolves.
RoomMembers_RegisteredOnly(room) ==
  {s \in Sids : <<s, room>> \in sio_rooms /\ get_user_from_sid(s) # None}

\* sio.emit(..., room=r) reaches the sids that entered room r.
RoomMembers(room) == {s \in Sids : <<s, room>> \in sio_rooms}

\* The username column of the user's row.
UsernameOf(user_id) == <<"username", user_id>>

\* Variant: the notification carries the message content as well.
SendEvents_ContentInNotification(user, conversation, message, content) ==
  LET message_data ==
        [id |-> message.id,
         conversation_id |-> message.conversation_id,
         sender_id |-> message.sender_id,
         content |-> content,
         created_at |-> message.created_at]
      new_message ==
        [event |-> "new_message", data |-> message_data,
         to |-> RoomMembers(conversation.id)]
      other_user_id ==
        IF conversation.participant1_id = user THEN conversation.participant2_id
        ELSE conversation.participant1_id
  IN  IF other_user_id \in DOMAIN connected_users
      THEN LET other_sid == connected_users[other_user_id].sid
           IN  IF \/ other_sid \notin DOMAIN sid_conversations
                  \/ conversation.id \notin sid_conversations[other_sid]
               THEN <<new_message,
                      [event |-> "message_notification",
                       data |-> [conversation_id |-> conversation.id,
                                 sender_id |-> user,
                                 sender_username |-> UsernameOf(user),
                                 content |-> content],
                       to |-> {other_sid}]>>
               ELSE <<new_message>>
      ELSE <<new_message>>

\* The events send_message emits once the message is committed.
SendEvents(user, conversation, message, content) ==
  LET message_data ==
        [id |-> message.id,
         conversation_id |-> message.conversation_id,
         sender_id |-> message.sender_id,
         content |-> content,
         created_at |-> message.created_at]
      new_message ==
        [event |-> "new_message", data |-> message_data,
         to |-> RoomMembers(conversation.id)]
      other_user_id ==
        IF conversation.participant1_id = user THEN conversation.participant2_id
        ELSE conversation.participant1_id
  IN  IF other_user_id \in DOMAIN connected_users
      THEN LET other_sid == connected_users[other_user_id].sid
           IN  IF \/ other_sid \notin DOMAIN sid_conversations
                  \/ conversation.id \notin sid_conversations[other_sid]
               THEN <<new_message,
                      [event |-> "message_notification",
                       data |-> [conversation_id |-> conversation.id,
                                 sender_id |-> user,
                                 sender_username |-> UsernameOf(user)],
                       to |-> {other_sid}]>>
               ELSE <<new_message>>
      ELSE <<new_message>>

\* Variant: the new row takes the place of the rows stored before.
send_message_Replace(sid, conversation_id, content, commit_ok) ==
  /\ sid_state[sid] = "open"
  /\ LET data == [conversation_id |-> conversation_id, content |-> content]
         user == get_user_from_sid(sid)
         conversation == IF conversation_id = None THEN None
                         ELSE ConversationById(conversation_id[1])
         error ==
           IF conversation_id = None \/ content = None
           THEN "Missing required fields (conversation_id, content)"
           ELSE IF user = None THEN "Not authenticated"
           ELSE IF conversation = None THEN "Conversation not found"
           ELSE IF /\ conversation[1].participant1_id # user[1]
                   /\ conversation[1].participant2_id # user[1]
                THEN "Not a participant"
           ELSE "none"
     IN  IF error # "none"
         THEN /\ response' = SocketReturn("send_message", sid, data, [error |-> error])
              /\ emitted' = <<>>
              /\ UNCHANGED messages
         ELSE LET sealed == encrypt_message(content[1])
                  message == Message(conversation_id[1], user[1], sealed[1], sealed[2])
              IN  IF ~commit_ok
                  THEN /\ response' = SocketReturn("send_message", sid, data,
                                                   [raised |-> "IntegrityError"])
                       /\ emitted' = <<>>
                       /\ UNCHANGED messages
                  ELSE /\ messages' = <<message>>
                       /\ emitted' = SendEvents(user[1], conversation[1], message,
                                                content[1])
                       /\ response' = SocketReturn("send_message", sid, data,
                                         [success |-> TRUE, message_id |-> message.id])
  /\ UNCHANGED <<users, conversations, now, auxVars, connected_users, sid_conversations,
                 sio_rooms, sid_state, authenticated, last_presence>>

\* Variant: the sender is not checked against the participants.
send_message_NoParticipantCheck(sid, conversation_id, content, commit_ok) ==
  /\ sid_state[sid] = "open"
  /\ LET data == [conversation_id |-> conversation_id, content |-> content]
         user == get_user_from_sid(sid)
         conversation == IF conversation_id = None THEN None
                         ELSE ConversationById(conversation_id[1])
         error ==
           IF conversation_id = None \/ content = None
           THEN "Missing required fields (conversation_id, content)"
           ELSE IF user = None THEN "Not authenticated"
           ELSE IF conversation = None THEN "Conversation not found"
           ELSE "none"
     IN  IF error # "none"
         THEN /\ response' = SocketReturn("send_message", sid, data, [error |-> error])
              /\ emitted' = <<>>
              /\ UNCHANGED messages
         ELSE LET sealed == encrypt_message(content[1])
                  message == Message(conversation_id[1], user[1], sealed[1], sealed[2])
              IN  IF ~commit_ok
                  THEN /\ response' = SocketReturn("send_message", sid, data,
                                                   [raised |-> "IntegrityError"])
                       /\ emitted' = <<>>
                       /\ UNCHANGED messages
                  ELSE /\ messages' = Append(messages, message)
                       /\ emitted' = SendEvents(user[1], conversation[1], message,
                                                content[1])
                       /\ response' = SocketReturn("send_message", sid, data,
                                         [success |-> TRUE, message_id |-> message.id])
  /\ UNCHANGED <<users, conversations, now, auxVars, connected_users, sid_conversations,
                 sio_rooms, sid_state, authenticated, last_presence>>

\* Variant: the events go out and success is returned although the
\* commit failed.
send_message_EmitOnFailedCommit(sid, conversation_id, content, commit_ok) ==
  /\ sid_state[sid] = "open"
  /\ LET data == [conversation_id |-> conversation_id, content |-> content]
         user == get_user_from_sid(sid)
         conversation == IF conversation_id = None THEN None
                         ELSE ConversationById(conversation_id[1])
         error ==
           IF conversation_id = None \/ content = None
           THEN "Missing required fields (conversation_id, content)"
           ELSE IF user = None THEN "Not authenticated"
           ELSE IF conversation = None THEN "Conversation not found"
           ELSE IF /\ conversation[1].participant1_id # user[1]
                   /\ conversation[1].participant2_id # user[1]
                THEN "Not a participant"
           ELSE "none"
     IN  IF error # "none"
         THEN /\ response' = SocketReturn("send_message", sid, data, [error |-> error])
              /\ emitted' = <<>>
              /\ UNCHANGED messages
         ELSE LET sealed == encrypt_message(content[1])
                  message == Message(conversation_id[1], user[1], sealed[1], sealed[2])
              IN  IF ~commit_ok
                  THEN /\ response' = SocketReturn("send_message", sid, data,
                                         [success |-> TRUE, message_id |-> message.id])
                       /\ emitted' = SendEvents(user[1], conversation[1], message,
                                                content[1])
                       /\ UNCHANGED messages
                  ELSE /\ messages' = Append(messages, message)
                       /\ emitted' = SendEvents(user[1], conversation[1], message,
                                                content[1])
                       /\ response' = SocketReturn("send_message", sid, data,
                                         [success |-> TRUE, message_id |-> message.id])
  /\ UNCHANGED <<users, conversations, now, auxVars, connected_users, sid_conversations,
                 sio_rooms, sid_state, authenticated, last_presence>>

\* commit_ok: whether db.commit() of the new row succeeds. The row has
\* NULL signature and wrapped keys: a table created from the model
\* (NOT NULL columns) refuses it, a table brought up by migrations.py
\* (plain TEXT columns) takes it.
send_message(sid, conversation_id, content, commit_ok) ==
  /\ sid_state[sid] = "open"
  /\ LET data == [conversation_id |-> conversation_id, content |-> content]
         user == get_user_from_sid(sid)
         conversation == IF conversation_id = None THEN None
                         ELSE ConversationById(conversation_id[1])
         error ==
           IF conversation_id = None \/ content = None
           THEN "Missing required fields (conversation_id, content)"
           ELSE IF user = None THEN "Not authenticated"
           ELSE IF conversation = None THEN "Conversation not found"
           ELSE IF /\ conversation[1].participant1_id # user[1]
                   /\ conversation[1].participant2_id # user[1]
                THEN "Not a participant"
           ELSE "none"
     IN  IF error # "none"
         THEN /\ response' = SocketReturn("send_message", sid, data, [error |-> error])
              /\ emitted' = <<>>
              /\ UNCHANGED messages
         ELSE LET sealed == encrypt_message(content[1])
                  message == Message(conversation_id[1], user[1], sealed[1], sealed[2])
              IN  IF ~commit_ok
                  THEN /\ response' = SocketReturn("send_message", sid, data,
                                                   [raised |-> "IntegrityError"])
                       /\ emitted' = <<>>
                       /\ UNCHANGED messages
                  ELSE /\ messages' = Append(messages, message)
                       /\ emitted' = SendEvents(user[1], conversation[1], message,
                                                content[1])
                       /\ response' = SocketReturn("send_message", sid, data,
                                         [success |-> TRUE, message_id |-> message.id])
  /\ UNCHANGED <<users, conversations, now, auxVars, connected_users, sid_conversations,
                 sio_rooms, sid_state, authenticated, last_presence>>

\* ------------------------------------ socket/events.py, typing indicators
\* Variant: the indicator goes to the whole room, the typing sid included.
TypingEvents_NoSkip(event, sid, conversation_id) ==
  LET user == get_user_from_sid(sid)
  IN  IF conversation_id = None \/ user = None THEN <<>>
      ELSE <<[event |-> event,
              data |-> [user_id |-> user[1], username |-> UsernameOf(user[1])],
              to |-> RoomMembers(conversation_id[1])]>>

\* What typing and stop_typing emit: nothing without a conversation id or
\* from a sid the registry does not resolve, else the event to the room
\* with skip_sid=sid.
TypingEvents(event, sid, conversation_id) ==
  LET user == get_user_from_sid(sid)
  IN  IF conversation_id = None \/ user = None THEN <<>>
      ELSE <<[event |-> event,
              data |-> [user_id |-> user[1], username |-> UsernameOf(user[1])],
              to |-> RoomMembers(conversation_id[1]) \ {sid}]>>

typing(sid, conversation_id) ==
  /\ sid_state[sid] = "open"
  /\ emitted' = TypingEvents("user_typing", sid, conversation_id)
  /\ response' = SocketReturn("typing", sid, conversation_id, None)
  /\ UNCHANGED <<dbVars, now, auxVars, connected_users, sid_conversations,
                 sio_rooms, sid_state, authenticated, last_presence>>

stop_typing(sid, conversation_id) ==
  /\ sid_state[sid] = "open"
  /\ emitted' = TypingEvents("user_stopped_typing", sid, conversation_id)
  /\ response' = SocketReturn("stop_typing", sid, conversation_id, None)
  /\ UNCHANGED <<dbVars, now, auxVars, connected_users, sid_conversations,
                 sio_rooms, sid_state, authenticated, last_presence>>

\* ------------------------------------- api/messages.py, POST .../messages
\* Request bodies: a MessageCreate envelope, or the plaintext body the
\* handler reads, which MessageCreate does not validate.
Envelope ==
  [ciphertext |-> "c", nonce |-> "n", signature |-> "s",
   encrypted_key_sender |-> "ks", encrypted_key_recipient |-> "kr",
   cipher_type |-> "aes-256-gcm"]
MessageBodies == {Envelope, [content |-> "hi"]}

api_send_message(u, conversation_id, message_data) ==
  /\ LET conversation == ConversationById(conversation_id)
         reply(code, detail) ==
           [op |-> "api_send_message", user |-> u,
            arg |-> <<conversation_id, message_data>>,
            status_code |-> code, detail |-> detail]
     IN  response' =
           IF DOMAIN message_data # DOMAIN Envelope
           THEN reply(422, "Field required")
           ELSE IF conversation = None
           THEN reply(404, "Conversation not found")
           ELSE IF /\ conversation[1].participant1_id # u
                   /\ conversation[1].participant2_id # u
           THEN reply(403, "Not a participant in this conversation")
           ELSE \* message_data.content: MessageCreate has no such field
                reply(500, "AttributeError")
  /\ UNCHANGED <<dbVars, now, auxVars, sockVars>>

NextSocket ==
  \/ \E sid \in Sids, t \in {None} \cup {Some(k) : k \in Tokens} : connect(sid, t)
  \/ \E sid \in Sids : disconnect(sid)
  \/ \E sid \in Sids, c \in ConversationIdInputs : join_conversation(sid, c)
  \/ \E sid \in Sids, c \in ConversationIdInputs : leave_conversation(sid, c)
  \/ \E r \in ConversationRequests : get_or_create_conversation(r[1], r[2])
  \/ \E sid \in Sids, c \in ConversationIdInputs : typing(sid, c)
  \/ \E sid \in Sids, c \in ConversationIdInputs : stop_typing(sid, c)

SpecSocket == Init /\ [][NextSocket]_vars

\* ------------------------------------ api/messages.py, GET /{conversation_id}
Reverse(seq) == [i \in 1..Len(seq) |-> seq[Len(seq) + 1 - i]]

\* schemas/message.py MessageResponse: the fields the model requires; the
\* constructor raises ValidationError (None here) when one is not given,
\* and drops fields it does not declare.
MessageResponseFields ==
  {"id", "conversation_id", "sender_id", "ciphertext", "nonce", "signature",
   "encrypted_key_sender", "encrypted_key_recipient", "cipher_type", "created_at"}

MessageResponse(given) ==
  IF MessageResponseFields \subseteq DOMAIN given
  THEN Some([f \in MessageResponseFields |-> given[f]])
  ELSE None

DecryptPlaceholder == "[Message could not be decrypted]"

\* order_by(created_at.desc()).limit(limit).offset(offset), then reversed;
\* rows are stored in creation order.
HistoryPage(conversation_id, limit, offset) ==
  LET rows == SelectSeq(messages, LAMBDA m : m.conversation_id = conversation_id)
      newest_first == Reverse(rows)
      last == IF offset + limit < Len(rows) THEN offset + limit ELSE Len(rows)
  IN  Reverse(SubSeq(newest_first, offset + 1, last))

\* One turn of the decrypt loop: the response item for the row, or None
\* where the except branch itself raises.
HistoryItem(msg) ==
  LET plaintext == decrypt_message(msg.ciphertext, msg.nonce)
      item(content) ==
        MessageResponse([id |-> msg.id, conversation_id |-> msg.conversation_id,
                         sender_id |-> msg.sender_id, content |-> content,
                         created_at |-> msg.created_at])
      tried == IF plaintext = None THEN None ELSE item(plaintext[1])
  IN  IF tried # None THEN tried ELSE item(DecryptPlaceholder)

get_conversation(u, conversation_id, limit, offset) ==
  /\ LET conversation == ConversationById(conversation_id)
         page == HistoryPage(conversation_id, limit, offset)
         items == [i \in 1..Len(page) |-> HistoryItem(page[i])]
         reply(code, detail) ==
           [op |-> "get_conversation", user |-> u,
            arg |-> [conversation_id |-> conversation_id, limit |-> limit,
                     offset |-> offset],
            status_code |-> code, detail |-> detail]
     IN  response' =
           IF conversation = None
           THEN reply(404, "Conversation not found")
           ELSE IF /\ conversation[1].participant1_id # u
                   /\ conversation[1].participant2_id # u
           THEN reply(403, "Not a participant in this conversation")
           ELSE IF \E i \in 1..Len(items) : items[i] = None
           THEN reply(500, "ValidationError")
           ELSE [op |-> "get_conversation", user |-> u,
                 arg |-> [conversation_id |-> conversation_id, limit |-> limit,
                          offset |-> offset],
                 status_code |-> 200,
                 body |-> [id |-> conversation[1].id,
                           messages |-> [i \in 1..Len(items) |-> items[i][1]]]]
  /\ UNCHANGED <<dbVars, now, sockVars, auxVars>>

\* Someone with access to the database alters a stored ciphertext or nonce.
TamperCiphertext(i, x) ==
  /\ i \in 1..Len(messages)
  /\ x # messages[i].ciphertext.sealed
  /\ messages' = [messages EXCEPT ![i].ciphertext.sealed = x]
  /\ response' = [op |-> "TamperCiphertext", arg |-> i]
  /\ UNCHANGED <<users, conversations, now, sockVars, auxVars>>

TamperNonce(i) ==
  /\ i \in 1..Len(messages)
  /\ messages[i].nonce # 0
  /\ messages' = [messages EXCEPT ![i].nonce = 0]
  /\ response' = [op |-> "TamperNonce", arg |-> i]
  /\ UNCHANGED <<users, conversations, now, sockVars, auxVars>>

\* The store runs: two connections, of a participant (alice) and of a
\* user outside the conversation (carol); sends, history reads, room
\* changes and alice's certificate upload over the same tables.
StoreSids == {"s1", "s2"}
StoreTokens ==
  {t \in SignedTokens : t.type = "access" /\ t.sub \in {"alice", "carol"}}
StorePems ==
  {GarbagePem} \cup
  {p \in CertificatePems :
     p.public_key = "k1" /\ p.signature_ok /\ p.subject_cn = "alice"}

NextStore ==
  \/ \E sid \in StoreSids, t \in StoreTokens : connect(sid, Some(t))
  \/ \E sid \in StoreSids : disconnect(sid)
  \/ \E sid \in StoreSids, c \in ConversationIdInputs : join_conversation(sid, c)
  \/ \E sid \in StoreSids, c \in ConversationIdsInUse : leave_conversation(sid, c)
  \/ get_or_create_conversation("alice", "bob")
  \/ \E sid \in StoreSids, c \in ConversationIdInputs,
        content \in {None} \cup {Some(x) : x \in Contents},
        commit_ok \in BOOLEAN :
        Len(messages) < MaxStored /\ send_message(sid, c, content, commit_ok)
  \/ \E u \in {"alice", "carol"},
        c \in {UnknownConversationId} \cup {k.id : k \in conversations},
        b \in MessageBodies : api_send_message(u, c, b)
  \/ \E u \in Users, c \in {UnknownConversationId} \cup {k.id : k \in conversations},
        limit \in {1, MaxStored}, offset \in 0..1 : get_conversation(u, c, limit, offset)
  \/ SubmitCSR("alice", "k1")
  \/ \E p \in StorePems : upload_certificate("alice", p)

SpecStore == Init /\ [][NextStore]_vars

\* The tamper runs: alice sends over one connection, the participants
\* read the history, and stored messages are altered in between.
NextTamper ==
  \/ connect("s1", Some([kind |-> "jwt", type |-> "access", sub |-> "alice"]))
  \/ get_or_create_conversation("alice", "bob")
  \/ \E c \in ConversationIdsInUse, x \in Contents :
        Len(messages) < MaxStored /\ send_message("s1", c, Some(x), TRUE)
  \/ \E u \in {"alice", "bob"}, c \in {k.id : k \in conversations},
        limit \in 1..MaxStored : get_conversation(u, c, limit, 0)
  \/ \E i \in 1..MaxStored, x \in Contents : TamperCiphertext(i, x)
  \/ \E i \in 1..MaxStored : TamperNonce(i)

SpecTamper == Init /\ [][NextTamper]_vars

\* The messaging runs: the two participants' connections, rooms named by
\* the ids in use, and a third user on the REST side.
ChatUsers == {"alice", "bob"}
AccessTokens == {t \in SignedTokens : t.type = "access" /\ t.sub \in ChatUsers}

NextChat ==
  \/ \E sid \in Sids, t \in AccessTokens : connect(sid, Some(t))
  \/ \E sid \in Sids : disconnect(sid)
  \/ \E sid \in Sids, c \in ConversationIdsInUse : join_conversation(sid, c)
  \/ \E sid \in Sids, c \in ConversationIdsInUse : leave_conversation(sid, c)
  \/ \E r \in ConversationRequests : get_or_create_conversation(r[1], r[2])
  \/ \E sid \in Sids, c \in {None} \cup ConversationIdsInUse,
        content \in {None} \cup {Some(x) : x \in Contents},
        commit_ok \in BOOLEAN :
        Len(messages) < MaxMessages /\ send_message(sid, c, content, commit_ok)
  \/ \E u \in {"alice", "carol"},
        c \in {UnknownConversationId} \cup {k.id : k \in conversations},
        b \in MessageBodies : api_send_message(u, c, b)

SpecChat == Init /\ [][NextChat]_vars

\* ------------------------------------------- handlers taken await by await
\* A handler that has passed its checks and is suspended at an await keeps
\* its locals in inflight, under the caller (a user for REST, a sid for
\* Socket.IO), until it is resumed.
Suspend(caller, locals) == DictSet(inflight, caller, locals)

\* get_or_create_conversation up to the lookup of an existing conversation
\* (lines 53-92): it answers at once unless a row has to be created.
get_or_create_conversation_check(u, user_id) ==
  /\ u \notin DOMAIN inflight
  /\ LET existing ==
           {c \in conversations :
              \/ c.participant1_id = u /\ c.participant2_id = user_id
              \/ c.participant1_id = user_id /\ c.participant2_id = u}
         reply(code, detail) ==
           [op |-> "get_or_create_conversation", user |-> u, arg |-> user_id,
            status_code |-> code, detail |-> detail]
     IN  IF user_id = u
         THEN /\ response' = reply(400, "Cannot create conversation with yourself")
              /\ UNCHANGED inflight
         ELSE IF user_id \notin DOMAIN users
         THEN /\ response' = reply(404, "User not found")
              /\ UNCHANGED inflight
         ELSE IF Cardinality(existing) > 1
         THEN /\ response' = reply(500, "MultipleResultsFound")
              /\ UNCHANGED inflight
         ELSE IF existing # {}
         THEN /\ response' = [op |-> "get_or_create_conversation", user |-> u,
                              arg |-> user_id, status_code |-> 200,
                              body |-> CHOOSE c \in existing : TRUE]
              /\ UNCHANGED inflight
         ELSE /\ inflight' = Suspend(u, [op |-> "get_or_create_conversation",
                                         user_id |-> user_id])
              /\ response' = [op |-> "get_or_create_conversation", user |-> u,
                              arg |-> user_id, status_code |-> 0,
                              detail |-> "suspended"]
  /\ UNCHANGED <<dbVars, now, sockVars, ca_file, ca_certificate>>

\* The rest of it (lines 94-114): the insert, its commit and the answer.
get_or_create_conversation_insert(u) ==
  /\ u \in DOMAIN inflight
  /\ inflight[u].op = "get_or_create_conversation"
  /\ LET conversation ==
           [id |-> NewConversationId, participant1_id |-> u,
            participant2_id |-> inflight[u].user_id]
     IN  /\ conversations' = conversations \cup {conversation}
         /\ response' = [op |-> "get_or_create_conversation", user |-> u,
                         arg |-> inflight[u].user_id, status_code |-> 200,
                         body |-> conversation]
  /\ inflight' = DictDel(inflight, u)
  /\ UNCHANGED <<users, messages, now, sockVars, ca_file, ca_certificate>>

\* join_conversation up to its last check (lines 118-138).
join_conversation_check(sid, conversation_id) ==
  /\ sid_state[sid] = "open"
  /\ sid \notin DOMAIN inflight
  /\ LET user == get_user_from_sid(sid)
         conversation == IF conversation_id = None THEN None
                         ELSE ConversationById(conversation_id[1])
         error ==
           IF conversation_id = None THEN "conversation_id required"
           ELSE IF user = None THEN "Not authenticated"
           ELSE IF conversation = None THEN "Conversation not found"
           ELSE IF /\ conversation[1].participant1_id # user[1]
                   /\ conversation[1].participant2_id # user[1]
                THEN "Not a participant"
           ELSE "none"
     IN  IF error # "none"
         THEN /\ response' = SocketReturn("join_conversation", sid, conversation_id,
                                          [error |-> error])
              /\ UNCHANGED inflight
         ELSE /\ inflight' = Suspend(sid, [op |-> "join_conversation",
                                           conversation_id |-> conversation_id])
              /\ response' = SocketReturn("join_conversation", sid, conversation_id,
                                          [suspended |-> TRUE])
  /\ emitted' = <<>>
  /\ UNCHANGED <<dbVars, now, ca_file, ca_certificate, connected_users,
                 sid_conversations, sio_rooms, sid_state, authenticated,
                 last_presence>>

\* The rest of it (lines 140-145): enter_room, then sid_conversations[sid].
\* For a sid that has disconnected meanwhile the lookup raises KeyError,
\* after enter_room has or has not put the sid into the room (entered).
join_conversation_enter(sid, entered) ==
  /\ sid \in DOMAIN inflight
  /\ inflight[sid].op = "join_conversation"
  /\ LET conversation_id == inflight[sid].conversation_id
     IN  IF sid \in DOMAIN sid_conversations
         THEN /\ sio_rooms' = sio_rooms \cup {<<sid, conversation_id[1]>>}
              /\ sid_conversations' =
                   [sid_conversations EXCEPT ![sid] = @ \cup {conversation_id[1]}]
              /\ response' = SocketReturn("join_conversation", sid, conversation_id,
                                          [success |-> TRUE])
         ELSE /\ sio_rooms' = IF entered
                              THEN sio_rooms \cup {<<sid, conversation_id[1]>>}
                              ELSE sio_rooms
              /\ UNCHANGED sid_conversations
              /\ response' = SocketReturn("join_conversation", sid, conversation_id,
                                          [raised |-> "KeyError"])
  /\ inflight' = DictDel(inflight, sid)
  /\ emitted' = <<>>
  /\ UNCHANGED <<dbVars, now, ca_file, ca_certificate, connected_users, sid_state,
                 authenticated, last_presence>>

\* The task running the disconnect handler of a sid.
DisconnectTask(sid) == sid \o "/disconnect"

\* disconnect up to its first await (lines 82-99): the registry entries go.
disconnect_registry(sid) ==
  /\ sid_state[sid] = "open"
  /\ LET hits == {uid \in DOMAIN connected_users : connected_users[uid].sid = sid}
         user_id == IF hits = {} THEN None ELSE Some(CHOOSE uid \in hits : TRUE)
     IN  /\ connected_users' =
              IF user_id = None THEN connected_users
              ELSE DictDel(connected_users, user_id[1])
         /\ inflight' = Suspend(DisconnectTask(sid),
                                [op |-> "disconnect", sid |-> sid, user_id |-> user_id])
         /\ response' = [op |-> "disconnect", sid |-> sid, arg |-> None,
                         result |-> [suspended |-> TRUE]]
  /\ sid_conversations' = DictDel(sid_conversations, sid)
  /\ sid_state' = [sid_state EXCEPT ![sid] = "closed"]
  /\ authenticated' = DictDel(authenticated, sid)
  /\ emitted' = <<>>
  /\ UNCHANGED <<dbVars, now, ca_file, ca_certificate, sio_rooms, last_presence>>

\* The rest of it (lines 99-113): the row goes offline, user_offline is
\* emitted, and the server drops the sid from every room.
disconnect_store(sid) ==
  /\ DisconnectTask(sid) \in DOMAIN inflight
  /\ LET user_id == inflight[DisconnectTask(sid)].user_id
     IN  /\ users' =
              IF user_id # None /\ user_id[1] \in DOMAIN users
              THEN [users EXCEPT ![user_id[1]].is_online = FALSE]
              ELSE users
         /\ emitted' =
              IF user_id = None THEN <<>>
              ELSE <<Broadcast("user_offline", [user_id |-> user_id[1]], sid)>>
         /\ last_presence' =
              IF user_id = None THEN last_presence
              ELSE [last_presence EXCEPT ![user_id[1]] = "user_offline"]
         /\ response' = [op |-> "disconnect", sid |-> sid, arg |-> None,
                         result |-> user_id]
  /\ sio_rooms' = {m \in sio_rooms : m[1] # sid}
  /\ inflight' = DictDel(inflight, DisconnectTask(sid))
  /\ UNCHANGED <<conversations, messages, now, ca_file, ca_certificate,
                 connected_users, sid_conversations, sid_state, authenticated>>

\* get_online_users lists the entries of connected_users.
get_online_users(sid) ==
  /\ sid_state[sid] = "open"
  /\ response' = SocketReturn("get_online_users", sid, None,
                   [online_users |->
                      {[user_id |-> uid, username |-> connected_users[uid].username] :
                         uid \in DOMAIN connected_users}])
  /\ emitted' = <<>>
  /\ UNCHANGED <<dbVars, now, auxVars, connected_users, sid_conversations, sio_rooms,
                 sid_state, authenticated, last_presence>>

\* The task running a send_message handler of a sid.
SendTask(sid) == sid \o "/send_message"

\* send_message up to the return of db.commit() (lines 168-206): the
\* checks, the encryption and the insert of the row.
send_message_store(sid, conversation_id, content) ==
  /\ sid_state[sid] = "open"
  /\ SendTask(sid) \notin DOMAIN inflight
  /\ LET data == [conversation_id |-> conversation_id, content |-> content]
         user == get_user_from_sid(sid)
         conversation == IF conversation_id = None THEN None
                         ELSE ConversationById(conversation_id[1])
         error ==
           IF conversation_id = None \/ content = None
           THEN "Missing required fields (conversation_id, content)"
           ELSE IF user = None THEN "Not authenticated"
           ELSE IF conversation = None THEN "Conversation not found"
           ELSE IF /\ conversation[1].participant1_id # user[1]
                   /\ conversation[1].participant2_id # user[1]
                THEN "Not a participant"
           ELSE "none"
     IN  IF error # "none"
         THEN /\ response' = SocketReturn("send_message", sid, data, [error |-> error])
              /\ UNCHANGED <<messages, inflight>>
         ELSE LET sealed == encrypt_message(content[1])
                  message == Message(conversation_id[1], user[1], sealed[1], sealed[2])
              IN  /\ messages' = Append(messages, message)
                  /\ inflight' = Suspend(SendTask(sid),
                                   [op |-> "send_message", data |-> data,
                                    user |-> user[1], conversation |-> conversation[1],
                                    message |-> message, content |-> content[1]])
                  /\ response' = SocketReturn("send_message", sid, data,
                                              [suspended |-> TRUE])
  /\ emitted' = <<>>
  /\ UNCHANGED <<users, conversations, now, ca_file, ca_certificate, connected_users,
                 sid_conversations, sio_rooms, sid_state, authenticated,
                 last_presence>>

\* The rest of it (lines 207-244): the refresh, the emits and the answer.
send_message_emit(sid) ==
  /\ SendTask(sid) \in DOMAIN inflight
  /\ LET task == inflight[SendTask(sid)]
     IN  /\ emitted' = SendEvents(task.user, task.conversation, task.message,
                                  task.content)
         /\ response' = SocketReturn("send_message", sid, task.data,
                          [success |-> TRUE, message_id |-> task.message.id])
  /\ inflight' = DictDel(inflight, SendTask(sid))
  /\ UNCHANGED <<dbVars, now, ca_file, ca_certificate, connected_users,
                 sid_conversations, sio_rooms, sid_state, authenticated,
                 last_presence>>

AsyncSids == {"s1", "s2"}

NextAsync ==
  \/ \E sid \in AsyncSids, t \in AccessTokens : connect(sid, Some(t))
  \/ \E sid \in AsyncSids : disconnect(sid)
  \/ \E sid \in AsyncSids : disconnect_registry(sid)
  \/ \E sid \in AsyncSids : disconnect_store(sid)
  \/ \E sid \in AsyncSids : get_online_users(sid)
  \/ \E r \in ConversationRequests : get_or_create_conversation_check(r[1], r[2])
  \/ \E u \in Users : get_or_create_conversation_insert(u)
  \/ \E sid \in AsyncSids, c \in ConversationIdInputs : join_conversation_check(sid, c)
  \/ \E sid \in AsyncSids, entered \in BOOLEAN : join_conversation_enter(sid, entered)

SpecAsync == Init /\ [][NextAsync]_vars

\* The concurrent sends: two connections in one room, each send stored and
\* emitted in two steps, and the history read by a participant.
NextOrder ==
  \/ \E sid \in AsyncSids, t \in AccessTokens : connect(sid, Some(t))
  \/ get_or_create_conversation("alice", "bob")
  \/ \E sid \in AsyncSids, c \in ConversationIdsInUse : join_conversation(sid, c)
  \/ \E sid \in AsyncSids, c \in ConversationIdInputs, x \in Contents :
        Len(messages) < MaxStored /\ send_message_store(sid, c, Some(x))
  \/ \E sid \in AsyncSids : send_message_emit(sid)
  \/ \E c \in {k.id : k \in conversations} : get_conversation("alice", c, MaxStored, 0)

SpecOrder == Init /\ [][NextOrder]_vars

\* ------------------------------------- utils/security.py and api/auth.py
\* create_access_token / create_refresh_token: the payload signed under
\* the server secret, with the type claim each of them sets.
create_access_token(data) == [kind |-> "jwt", type |-> "access", sub |-> data.sub]
create_refresh_token(data) == [kind |-> "jwt", type |-> "refresh", sub |-> data.sub]

\* get_current_user: the id of the bearer's user, or None where it raises
\* the 401 credentials exception.
get_current_user(credentials) ==
  LET payload == verify_token(credentials, "access")
  IN  IF payload = None THEN None
      ELSE IF payload[1].sub \in DOMAIN users THEN Some(payload[1].sub)
      ELSE None

\* GET /users/me, an operation behind Depends(get_current_user).
get_me(credentials) ==
  /\ LET current_user == get_current_user(credentials)
     IN  response' =
           IF current_user = None
           THEN [op |-> "get_me", arg |-> credentials, status_code |-> 401,
                 detail |-> "Could not validate credentials"]
           ELSE [op |-> "get_me", arg |-> credentials, status_code |-> 200,
                 body |-> [id |-> current_user[1],
                           username |-> UsernameOf(current_user[1])]]
  /\ UNCHANGED <<dbVars, now, sockVars, auxVars>>

\* POST /auth/refresh.
refresh_token(data) ==
  /\ LET payload == verify_token(data, "refresh")
         reply(detail) ==
           [op |-> "refresh_token", arg |-> data, status_code |-> 401,
            detail |-> detail]
     IN  response' =
           IF payload = None THEN reply("Invalid refresh token")
           ELSE IF payload[1].sub \notin DOMAIN users THEN reply("User not found")
           ELSE [op |-> "refresh_token", arg |-> data, status_code |-> 200,
                 body |-> [access_token |-> create_access_token([sub |-> payload[1].sub]),
                           refresh_token |-> create_refresh_token([sub |-> payload[1].sub])]]
  /\ UNCHANGED <<dbVars, now, sockVars, auxVars>>

\* The salt column of the user's row, as signup stored it.
SaltOf(user_id) == <<"salt", user_id>>
\* secrets.token_hex(16): a fresh random text of hex digits.
FakeSalts == {<<"token_hex", "r1">>, <<"token_hex", "r2">>}

\* schemas/user.py LoginInitResponse: exists is True unless it is given.
LoginInitResponse(given) ==
  [salt |-> given.salt,
   exists |-> IF "exists" \in DOMAIN given THEN given.exists ELSE TRUE]

\* POST /auth/login/init.
login_init(username) ==
  /\ LET hits == {u \in DOMAIN users : UsernameOf(u) = username}
     IN  IF hits = {}
         THEN \E fake_salt \in FakeSalts :
                response' = [op |-> "login_init", arg |-> username,
                             status_code |-> 200,
                             body |-> LoginInitResponse([salt |-> fake_salt,
                                                         exists |-> FALSE])]
         ELSE response' = [op |-> "login_init", arg |-> username,
                           status_code |-> 200,
                           body |-> LoginInitResponse(
                                      [salt |-> SaltOf(CHOOSE u \in hits : TRUE)])]
  /\ UNCHANGED <<dbVars, now, sockVars, auxVars>>

\* The authentication runs: every kind of token at the socket, at a
\* protected REST operation and at the refresh endpoint, and login_init
\* for registered and unregistered names.
NextAuth ==
  \/ \E sid \in Sids, t \in {None} \cup {Some(k) : k \in Tokens} : connect(sid, t)
  \/ \E sid \in Sids : disconnect(sid)
  \/ \E t \in Tokens : get_me(t)
  \/ \E t \in Tokens : refresh_token(t)
  \/ \E u \in Users \cup {UnknownUserId} : login_init(UsernameOf(u))

SpecAuth == Init /\ [][NextAuth]_vars

\* ====================================================== properties
\* Vocabulary of the properties, stated on the certificate text itself.
SignedByCA(pem) == pem.type = "CERTIFICATE" /\ pem.signature_ok
SignatureInvalidError == "Certificate is not signed by the CA"
NoCsrError == "No CSR found for this user. Cannot verify certificate."
KeyMismatchError == "Certificate does not match your CSR"
ExpiredError == "Certificate has expired"

IsUpload(r) == r.op = "upload_certificate"
UploadRejected(r) == IsUpload(r) /\ r.status_code # 200
UploadRejectedWith(r, detail) ==
  IsUpload(r) /\ r.status_code = 400 /\ r.detail = detail
UploadAccepted(r) == IsUpload(r) /\ r.status_code = 200

CertificateFields(row) ==
  <<row.certificate, row.certificate_status, row.certificate_expires_at,
    row.certificate_serial>>

\* The serial numbers of the pool as format(n, "x") prints them.
SerialText(n) == IF n = 10 THEN <<"a">> ELSE <<"a", "b">>

\* C1: an upload whose signature does not verify under the CA public key is
\* rejected with the signature-invalid error, whether or not the caller has
\* a CSR and whatever the certificate's key and validity period.
C1_UnsignedUploadIsSignatureInvalid ==
  (IsUpload(response) /\ ~SignedByCA(response.arg))
    => UploadRejectedWith(response, SignatureInvalidError)

\* C1 witness: a certificate that matches the caller's CSR and is still
\* valid, but is not signed by the CA, has been rejected.
C1_Witness ==
  /\ IsUpload(response)
  /\ response.arg.type = "CERTIFICATE"
  /\ ~response.arg.signature_ok
  /\ users[response.user].csr = Some(CsrPem(response.arg.public_key))
  /\ now <= response.arg.not_valid_after
  /\ UploadRejectedWith(response, SignatureInvalidError)

\* C2: a rejected upload leaves the certificate, status, expiry and serial
\* of every user as they were before the call; a CA-signed certificate whose
\* key differs from the key of the caller's CSR is rejected with the
\* key-mismatch error.
C2_RejectedUploadChangesNothing ==
  [][ /\ UploadRejected(response')
          => \A u \in Users : CertificateFields(users'[u]) = CertificateFields(users[u])
      /\ \A u \in Users :
            ( /\ IsUpload(response') /\ response'.user = u
              /\ SignedByCA(response'.arg)
              /\ users[u].csr # None
              /\ users[u].csr[1].public_key # response'.arg.public_key )
            => /\ UploadRejectedWith(response', KeyMismatchError)
               /\ CertificateFields(users'[u]) = CertificateFields(users[u]) ]_vars

\* C2 witness: a key-mismatch rejection for a user who holds an active
\* certificate.
C2_Witness ==
  /\ UploadRejectedWith(response, KeyMismatchError)
  /\ users[response.user].certificate_status = "active"
  /\ users[response.user].certificate # Some(response.arg)

\* C3: a user's status becomes 'active', or an active user's certificate
\* changes, only in a step that is an accepted upload by that user of the
\* certificate then stored, signed by the CA, carrying the key of the user's
\* CSR and not expired at that time.
C3_ActiveOnlyByAcceptedUpload ==
  [][ \A u \in Users :
        ( /\ users'[u].certificate_status = "active"
          /\ \/ users[u].certificate_status # "active"
             \/ users'[u].certificate # users[u].certificate )
        => /\ UploadAccepted(response')
           /\ response'.user = u
           /\ users'[u].certificate = Some(response'.arg)
           /\ SignedByCA(response'.arg)
           /\ users[u].csr # None
           /\ users[u].csr[1].public_key = response'.arg.public_key
           /\ ~(now > response'.arg.not_valid_after) ]_vars

\* C3 witness: an upload accepted at the last second of validity.
C3_Witness ==
  /\ UploadAccepted(response)
  /\ users[response.user].certificate_status = "active"
  /\ users[response.user].certificate = Some(response.arg)
  /\ now = response.arg.not_valid_after

\* C4: when the caller has a CSR and the uploaded certificate is signed by
\* the CA, carries the CSR's key and is not expired, the upload succeeds:
\* status 'active', the uploaded certificate stored, serial and expiry stored
\* and reported as the certificate's serial number (in hexadecimal) and
\* notAfter, and the subject reported.
C4_ValidUploadSucceeds ==
  ( /\ IsUpload(response)
    /\ SignedByCA(response.arg)
    /\ users[response.user].csr # None
    /\ users[response.user].csr[1].public_key = response.arg.public_key
    /\ now <= response.arg.not_valid_after )
  => LET row == users[response.user]
         cert == response.arg
     IN  /\ response.status_code = 200
         /\ row.certificate_status = "active"
         /\ row.certificate = Some(cert)
         /\ row.certificate_serial = Some(SerialText(cert.serial_number))
         /\ row.certificate_expires_at = Some(cert.not_valid_after)
         /\ response.body.status = "active"
         /\ response.body.serial = Some(SerialText(cert.serial_number))
         /\ response.body.expires_at = Some(cert.not_valid_after)
         /\ response.body.subject =
              IF cert.subject_cn = NoCN THEN None ELSE Some(cert.subject_cn)

\* C4 witness: the certificate with serial 171 has been accepted and its
\* serial is stored and reported as "ab".
C4_Witness ==
  /\ UploadAccepted(response)
  /\ response.arg.serial_number = 171
  /\ users[response.user].certificate_serial = Some(<<"a", "b">>)
  /\ response.body.serial = Some(<<"a", "b">>)

\* C5 as stated: a user without a CSR gets the no-CSR error for every
\* uploaded certificate.
C5_Original ==
  (IsUpload(response) /\ users[response.user].csr = None)
    => UploadRejectedWith(response, NoCsrError)

\* C5 as amended: a user without a CSR never has an upload accepted; the
\* upload fails with the no-CSR error when the certificate's signature
\* verifies under the CA key and with the signature-invalid error otherwise.
C5_NoCsrNeverAccepted ==
  (IsUpload(response) /\ users[response.user].csr = None)
    => /\ ~UploadAccepted(response)
       /\ UploadRejectedWith(response,
             IF SignedByCA(response.arg) THEN NoCsrError ELSE SignatureInvalidError)

\* C5 witness: a CA-signed, unexpired certificate uploaded by a user
\* without a CSR has been rejected with the no-CSR error.
C5_Witness ==
  /\ IsUpload(response)
  /\ users[response.user].csr = None
  /\ SignedByCA(response.arg)
  /\ now <= response.arg.not_valid_after
  /\ UploadRejectedWith(response, NoCsrError)

\* C6: an upload makes a user 'active' only from 'pending' or 'active'; a
\* user whose status is 'none' or 'revoked' never becomes 'active' through
\* upload_certificate.
C6_ActiveOnlyFromPendingOrActive ==
  [][ \A u \in Users :
        (UploadAccepted(response') /\ response'.user = u
           /\ users'[u].certificate_status = "active")
        => users[u].certificate_status \in {"pending", "active"} ]_vars

\* C7: get_certificate_status and get_user_certificate change no stored
\* field of any user; a read that reports 'expired' leaves the stored
\* status 'active'.
C7_ReadsChangeNothing ==
  [][ response'.op \in {"get_certificate_status", "get_user_certificate"}
        => /\ users' = users
           /\ conversations' = conversations
           /\ (response'.status_code = 200 /\ response'.body.status = "expired")
                => users'[response'.arg].certificate_status = "active" ]_vars

\* C7 witness: the status of a user whose certificate has passed notAfter
\* has been read, and the stored status is still 'active'.
C7_Witness ==
  /\ response.op = "get_certificate_status"
  /\ response.body.status = "expired"
  /\ users[response.user].certificate_status = "active"
  /\ now > users[response.user].certificate[1].not_valid_after

\* C8: get_certificate_status reports 'expired' exactly when the stored
\* status is 'active', a certificate is stored and the clock is past its
\* notAfter; otherwise it reports the stored status ('none' when empty), so
\* a stored 'pending' or 'revoked' is never reported as 'active' or 'expired'.
C8_StatusReport ==
  response.op = "get_certificate_status"
    => LET row == users[response.user]
           reported == response.body.status
       IN  /\ (reported = "expired")
                <=> ( /\ row.certificate_status = "active"
                      /\ row.certificate # None
                      /\ now > row.certificate[1].not_valid_after )
           /\ reported # "expired"
                => reported = (IF row.certificate_status = "" THEN "none"
                               ELSE row.certificate_status)
           /\ row.certificate_status \in {"pending", "revoked"}
                => reported \notin {"active", "expired"}

\* C8 witness: a revoked user whose stored certificate has passed notAfter
\* is reported as 'revoked'.
C8_Witness ==
  /\ response.op = "get_certificate_status"
  /\ users[response.user].certificate_status = "revoked"
  /\ users[response.user].certificate # None
  /\ now > users[response.user].certificate[1].not_valid_after
  /\ response.body.status = "revoked"

\* C9: is_certificate_expired is true exactly when the clock is strictly
\* past notAfter: false one second before and at notAfter, true one second
\* after.
C9_ExpiredIffStrictlyAfter ==
  response.op = "is_certificate_expired"
    => LET notAfter == response.arg.not_valid_after
       IN  /\ response.result <=> (now > notAfter)
           /\ now = notAfter - 1 => ~response.result
           /\ now = notAfter => ~response.result
           /\ now = notAfter + 1 => response.result

\* C9 witness: the function applied at notAfter itself returned false.
C9_Witness ==
  /\ response.op = "is_certificate_expired"
  /\ now = response.arg.not_valid_after
  /\ response.result = FALSE

\* C10: every connection whose connect was accepted and that has not
\* disconnected resolves to the user it authenticated as, whatever other
\* connections of the same user do.
C10_LiveConnectionsResolve ==
  \A sid \in DOMAIN authenticated :
    get_user_from_sid(sid) = Some(authenticated[sid])

\* ------------------------------------------- registry properties
ConnectAccepted(sid) == sid_state[sid] = "new" /\ sid_state'[sid] = "open"
Disconnected(sid) == sid_state[sid] = "open" /\ sid_state'[sid] = "closed"

\* The live connections of a user, before and after the step.
LiveConnections(u) == {s \in DOMAIN authenticated : authenticated[s] = u}
LiveConnectionsAfter(u) == {s \in DOMAIN authenticated' : authenticated'[s] = u}

\* The handler of the step emitted this presence event for the user.
EmitsPresence(event, u) ==
  \E i \in 1..Len(emitted') :
    emitted'[i].event = event /\ emitted'[i].data.user_id = u

\* C11: a disconnect emits the user's user_offline exactly when no other
\* live connection of that user remains after it.
C11_OfflineIffLastConnection ==
  [][ \A sid \in Sids :
        Disconnected(sid)
          => (EmitsPresence("user_offline", authenticated[sid])
                <=> LiveConnectionsAfter(authenticated[sid]) = {}) ]_vars

\* C12: the presence events of a user alternate, starting with user_online,
\* and user_online is emitted only by the connect that takes the user from
\* no live connection to one.
C12_PresenceAlternates ==
  [][ \A sid \in Sids :
        /\ ConnectAccepted(sid)
             => LET u == authenticated'[sid]
                IN  /\ EmitsPresence("user_online", u) <=> LiveConnections(u) = {}
                    /\ EmitsPresence("user_online", u)
                         => last_presence[u] # "user_online"
        /\ Disconnected(sid)
             => \A u \in Users :
                  EmitsPresence("user_offline", u)
                    => last_presence[u] = "user_online" ]_vars

\* The joined set of a connection: its sid_conversations entry and the
\* server rooms it is in.
JoinedSet(sc, rooms, sid) ==
  (IF sid \in DOMAIN sc THEN sc[sid] ELSE {}) \cup {m[2] : m \in {r \in rooms : r[1] = sid}}

IsParticipant(conversation_id, u) ==
  \E c \in conversations :
    c.id = conversation_id /\ u \in {c.participant1_id, c.participant2_id}

\* C13: join_conversation adds a conversation to a joined set only for a
\* registered connection whose user is a participant; a call that returns
\* an error changes no joined set; so every conversation in a connection's
\* joined set has the connection's user as a participant.
C13_JoinOnlyParticipants ==
  /\ [](\A sid \in Sids : \A c \in JoinedSet(sid_conversations, sio_rooms, sid) :
          sid \in DOMAIN authenticated /\ IsParticipant(c, authenticated[sid]))
  /\ [][ response'.op = "join_conversation"
          => /\ \A sid \in Sids :
                  \A c \in JoinedSet(sid_conversations', sio_rooms', sid)
                           \ JoinedSet(sid_conversations, sio_rooms, sid) :
                    /\ sid = response'.sid
                    /\ response'.arg = Some(c)
                    /\ get_user_from_sid(sid) # None
                    /\ IsParticipant(c, get_user_from_sid(sid)[1])
             /\ response'.result # [success |-> TRUE]
                  => /\ sid_conversations' = sid_conversations
                     /\ sio_rooms' = sio_rooms
                     /\ response'.result \in
                          {[error |-> e] : e \in {"conversation_id required",
                             "Not authenticated", "Conversation not found",
                             "Not a participant"}} ]_vars

\* C13 witness: a non-participant's join has been refused while a
\* participant's connection is in the room.
C13_Witness ==
  /\ response.op = "join_conversation"
  /\ response.result = [error |-> "Not a participant"]
  /\ \E sid \in DOMAIN sid_conversations : sid_conversations[sid] # {}

\* C14: leave_conversation with a conversation id always returns success;
\* afterwards the conversation is not in the connection's joined set, the
\* connection's other rooms and every other connection's joined set are
\* unchanged, and leaving a conversation that is not joined changes nothing.
C14_LeaveIsIdempotentRemoval ==
  [][ (response'.op = "leave_conversation" /\ response'.arg # None)
        => LET sid == response'.sid
               c == response'.arg[1]
           IN  /\ response'.result = [success |-> TRUE]
               /\ c \notin JoinedSet(sid_conversations', sio_rooms', sid)
               /\ DOMAIN sid_conversations' = DOMAIN sid_conversations
               /\ \A s \in DOMAIN sid_conversations :
                     sid_conversations'[s] =
                       IF s = sid THEN sid_conversations[s] \ {c}
                       ELSE sid_conversations[s]
               /\ sio_rooms' = sio_rooms \ {<<sid, c>>}
               /\ c \notin JoinedSet(sid_conversations, sio_rooms, sid)
                    => sid_conversations' = sid_conversations /\ sio_rooms' = sio_rooms ]_vars

\* C14 witness: a connection joined to a conversation has left another
\* conversation it never joined, and is still joined to the first.
C14_Witness ==
  /\ response.op = "leave_conversation"
  /\ response.result = [success |-> TRUE]
  /\ response.arg = Some(UnknownConversationId)
  /\ sid_conversations[response.sid] # {}

\* ------------------------------------------- messaging properties
\* The last handler was a send_message that returned success.
SendSucceeded ==
  response.op = "send_message" /\ "success" \in DOMAIN response.result

\* Of that send: the conversation, the sender and the other participant.
SentConversation == ConversationById(response.arg.conversation_id[1])[1]
Sender == authenticated[response.sid]
OtherParticipant ==
  IF SentConversation.participant1_id = Sender
  THEN SentConversation.participant2_id
  ELSE SentConversation.participant1_id

EventsNamed(event) == {e \in {emitted[i] : i \in 1..Len(emitted)} : e.event = event}
RecipientsOf(event) == UNION {e.to : e \in EventsNamed(event)}

\* C15: on a successful send_message the message_notification is emitted
\* iff the other participant has a live connection and none of its live
\* connections is joined to the room; it goes to that user's live
\* connections, and the other participant never gets both new_message and
\* the notification.
C15_NotificationIffOnlineAndOutOfRoom ==
  SendSucceeded
    => LET live == LiveConnections(OtherParticipant)
           joined == {s \in live :
                        SentConversation.id \in JoinedSet(sid_conversations, sio_rooms, s)}
           notified == EventsNamed("message_notification") # {}
       IN  /\ notified <=> (live # {} /\ joined = {})
           /\ notified => RecipientsOf("message_notification") = live
           /\ ~(notified /\ RecipientsOf("new_message") \cap live # {})

C17_NewMessageToWholeRoom ==
  SendSucceeded
    => \E e \in EventsNamed("new_message") :
         /\ e.data.id = response.result.message_id
         /\ \A s \in DOMAIN sid_conversations :
              SentConversation.id \in sid_conversations[s] => s \in e.to

\* C17 witness: the message went to the sending connection and to another
\* joined connection of the sender.
C17_Witness ==
  /\ SendSucceeded
  /\ response.sid \in RecipientsOf("new_message")
  /\ \E s \in RecipientsOf("new_message") :
       s # response.sid /\ authenticated[s] = Sender

MessageEvents(events) ==
  {e \in {events[i] : i \in 1..Len(events)} :
     e.event \in {"new_message", "message_notification"}}

\* C18: a send_message that returns success has appended exactly one message
\* of that conversation and sender; every message event it emits is for a
\* message that is stored; a send that does not return success stores
\* nothing and emits nothing.
C18_SuccessMeansStored ==
  [][ response'.op = "send_message"
        => IF "success" \in DOMAIN response'.result
           THEN /\ Len(messages') = Len(messages) + 1
                /\ SubSeq(messages', 1, Len(messages)) = messages
                /\ LET m == messages'[Len(messages')]
                   IN  /\ m.id = response'.result.message_id
                       /\ m.conversation_id = response'.arg.conversation_id[1]
                       /\ m.sender_id = authenticated[response'.sid]
                       /\ \A e \in MessageEvents(emitted') :
                            e.data.conversation_id = m.conversation_id
                       /\ \A e \in MessageEvents(emitted') :
                            e.event = "new_message" => e.data.id = m.id
           ELSE /\ messages' = messages
                /\ emitted' = <<>> ]_vars

\* C18 witness: a message to a participant with no live connection has
\* been sent with success and is stored.
C18_Witness ==
  /\ SendSucceeded
  /\ LiveConnections(OtherParticipant) = {}
  /\ \E i \in 1..Len(messages) :
       /\ messages[i].id = response.result.message_id
       /\ messages[i].sender_id = Sender

\* C19: the server is content-blind: no event emitted by send_message
\* carries the message content in the clear.
C19_NoPlaintextEmitted ==
  response.op = "send_message"
    => \A e \in MessageEvents(emitted) : "content" \notin DOMAIN e.data

RecognizedCipherTypes == {"aes-256-gcm"}

\* C20: every stored message is a well-formed envelope: ciphertext, nonce,
\* signature, both wrapped keys and a recognized cipher suite are present.
C20_StoredMessagesWellFormed ==
  \A i \in 1..Len(messages) :
    /\ {"ciphertext", "nonce"} \subseteq DOMAIN messages[i]
    /\ messages[i].signature # None
    /\ messages[i].encrypted_key_sender # None
    /\ messages[i].encrypted_key_recipient # None
    /\ messages[i].cipher_type \in RecognizedCipherTypes

\* ------------------------------------------- connect properties
\* The token names an existing user and is an access token.
VerifiedToken(auth_token) ==
  /\ auth_token # None
  /\ auth_token[1].kind = "jwt"
  /\ auth_token[1].type = "access"
  /\ auth_token[1].sub \in DOMAIN users

RegisteredSids(cu, sc) == {cu[u].sid : u \in DOMAIN cu} \cup DOMAIN sc

\* C24: a connect whose token is missing, invalid or of an unknown user is
\* refused, changes neither the connection maps nor a stored presence flag
\* and emits nothing; a sid enters the registry only in the connect step
\* that verified its token to an existing user.
C24_AuthenticationPrecedesRegistration ==
  [][ /\ response'.op = "connect"
         => /\ response'.result = VerifiedToken(response'.arg)
            /\ response'.result = FALSE
                 => /\ UNCHANGED <<connected_users, sid_conversations, sio_rooms,
                                   users, authenticated>>
                    /\ emitted' = <<>>
      /\ \A sid \in RegisteredSids(connected_users', sid_conversations')
                      \ RegisteredSids(connected_users, sid_conversations) :
           /\ response'.op = "connect"
           /\ response'.sid = sid
           /\ VerifiedToken(response'.arg) ]_vars

\* C24 witness: a connect with the token of an unknown user has been
\* refused while another connection is registered.
C24_Witness ==
  /\ response.op = "connect"
  /\ response.result = FALSE
  /\ response.arg # None
  /\ response.arg[1].kind = "jwt"
  /\ response.arg[1].sub = UnknownUserId
  /\ DOMAIN connected_users # {}

\* ------------------------------------------- CA certificate properties
IsDefaultVerify(r) == r.op = "verify_certificate" /\ "result" \in DOMAIN r

\* C26 as stated: verify_certificate returns true or false for every
\* certificate input and never raises.
C26_Original ==
  IsDefaultVerify(response) => "returned" \in DOMAIN response.result

\* C26: with a CA certificate cached or loadable, verify_certificate
\* returns true or false and never raises, whatever the certificate input,
\* and returns true only for a certificate whose signature verifies under
\* the public key of the CA certificate in use; it raises only where the CA
\* certificate cannot be loaded.
C26_SafePredicateGivenCA ==
  IsDefaultVerify(response)
    => IF ca_certificate = None
       THEN "raised" \in DOMAIN response.result
       ELSE /\ "returned" \in DOMAIN response.result
            /\ response.result.returned \in BOOLEAN
            /\ response.result.returned
                 => /\ response.arg.type = "CERTIFICATE"
                    /\ response.arg.signature_ok
                    /\ ca_certificate[1].public_key = "AC1"

\* C26 witness: text that is no certificate has been judged, and the
\* answer was false.
C26_Witness ==
  /\ IsDefaultVerify(response)
  /\ response.arg = GarbagePem
  /\ response.result = Returned(FALSE)

\* C27: once load_ca_certificate has succeeded the cached certificate never
\* changes, and load_ca_certificate and verify_certificate use it whatever
\* the file holds by then; a load that fails caches nothing.
C27_CachedForProcessLifetime ==
  [][ /\ ca_certificate # None
         => /\ ca_certificate' = ca_certificate
            /\ response'.op = "load_ca_certificate"
                 => response'.result = Returned(ca_certificate[1])
            /\ IsDefaultVerify(response')
                 => response'.result =
                      Returned(/\ response'.arg.type = "CERTIFICATE"
                               /\ response'.arg.signature_ok
                               /\ ca_certificate[1].public_key = "AC1")
      /\ (ca_certificate = None /\ response'.op = "load_ca_certificate")
         => IF "raised" \in DOMAIN response'.result
            THEN ca_certificate' = None
            ELSE /\ ca_certificate' = ca_file
                 /\ response'.result = Returned(ca_file[1]) ]_vars

\* C27 witness: the file has been replaced or removed after the load, and
\* a certificate signed by the cached CA has still been verified.
C27_Witness ==
  /\ ca_certificate = Some(CACertificatePem("AC1"))
  /\ ca_file # ca_certificate
  /\ IsDefaultVerify(response)
  /\ response.result = Returned(TRUE)

\* ------------------------------------------- typing properties
IsTyping(r) == r.op \in {"typing", "stop_typing"}

\* C30: typing and stop_typing emit user_typing / user_stopped_typing to
\* the connections joined to the conversation other than the sending one,
\* and change no stored data and no registry state; without a conversation
\* id or from a connection the registry does not hold they emit nothing.
C30_TypingIsRoomBroadcastOnly ==
  [][ IsTyping(response')
        => LET sid == response'.sid
               c == response'.arg
               event == IF response'.op = "typing" THEN "user_typing"
                        ELSE "user_stopped_typing"
           IN  /\ UNCHANGED <<users, conversations, messages, connected_users,
                              sid_conversations, sio_rooms, sid_state, authenticated>>
               /\ IF c = None \/ sid \notin {connected_users[u].sid :
                                               u \in DOMAIN connected_users}
                  THEN emitted' = <<>>
                  ELSE /\ Len(emitted') = 1
                       /\ emitted'[1].event = event
                       /\ emitted'[1].data.user_id = authenticated[sid]
                       /\ emitted'[1].to =
                            {s \in DOMAIN sid_conversations :
                               c[1] \in sid_conversations[s]} \ {sid} ]_vars

\* C30 witness: a connection joined to a conversation has sent typing and
\* another joined connection got user_typing.
C30_Witness ==
  /\ response.op = "typing"
  /\ response.arg # None
  /\ response.arg[1] \in sid_conversations[response.sid]
  /\ Len(emitted) = 1
  /\ emitted[1].to # {}

\* ------------------------------------------- message store properties
\* C21: a stored message is immutable: no send, history read, join, leave,
\* connect, disconnect or certificate upload changes or removes a stored
\* message; the messages only grow by appending.
C21_StoredMessagesImmutable ==
  [][ /\ Len(messages') >= Len(messages)
      /\ \A i \in 1..Len(messages) : messages'[i] = messages[i] ]_vars

\* C21 witness: with one message stored, a second one has been sent after
\* a certificate upload was accepted, and both are there.
C21_Witness ==
  /\ Len(messages) = 2
  /\ response.op = "send_message"
  /\ "success" \in DOMAIN response.result
  /\ users["alice"].certificate_status = "active"

SessionErrors ==
  {"Missing required fields (conversation_id, content)", "conversation_id required",
   "Not authenticated", "Conversation not found", "Not a participant"}

\* C25: a join_conversation or send_message that returns an error leaves
\* the connection registered and every joined set as it was, stores no
\* message and emits nothing; a REST send refused with 403 or 404 stores
\* nothing; so the sender of every stored message is a participant of the
\* message's conversation.
C25_ErrorRejectsOnlyTheRequest ==
  /\ [](\A i \in 1..Len(messages) :
          IsParticipant(messages[i].conversation_id, messages[i].sender_id))
  /\ [][ /\ (/\ response'.op \in {"join_conversation", "send_message"}
             /\ "error" \in DOMAIN response'.result)
            => /\ response'.result.error \in SessionErrors
               /\ UNCHANGED <<connected_users, sid_conversations, sio_rooms,
                              sid_state, authenticated, messages>>
               /\ emitted' = <<>>
         /\ (/\ response'.op = "api_send_message"
             /\ response'.status_code \in {403, 404})
            => UNCHANGED messages ]_vars

\* C25 witness: with a message stored, a send by a connected user who is
\* not a participant has been refused.
C25_Witness ==
  /\ response.op = "send_message"
  /\ response.result = [error |-> "Not a participant"]
  /\ Len(messages) >= 1
  /\ response.sid \in {connected_users[u].sid : u \in DOMAIN connected_users}

\* The last operation was a history read by a participant that asked for
\* the whole conversation.
FullHistoryRead ==
  /\ response.op = "get_conversation"
  /\ IsParticipant(response.arg.conversation_id, response.user)
  /\ response.arg.offset = 0
  /\ response.arg.limit >=
       Len(SelectSeq(messages,
                     LAMBDA m : m.conversation_id = response.arg.conversation_id))

\* The plaintext a stored message was sealed from, and whether the row
\* still is what encrypt_message made.
SealedFrom(m) == m.ciphertext.tag[3]
Intact(m) ==
  m.ciphertext.tag = GcmTag(SERVER_KEY, m.nonce, m.ciphertext.sealed)

ReturnedWithContent(m, content) ==
  /\ response.status_code = 200
  /\ \E k \in 1..Len(response.body.messages) :
       LET item == response.body.messages[k]
       IN  item.id = m.id /\ "content" \in DOMAIN item /\ item.content = content

\* C28: a history read by either participant returns every message sent in
\* the conversation with the content that was sent.
C28_HistoryRoundTrip ==
  FullHistoryRead
    => \A i \in 1..Len(messages) :
         messages[i].conversation_id = response.arg.conversation_id
           => ReturnedWithContent(messages[i], SealedFrom(messages[i]))

\* C29: a history read returns the placeholder for a message whose
\* ciphertext or nonce was altered and the original content for every
\* other message.
C29_TamperingYieldsPlaceholder ==
  (FullHistoryRead /\ \E i \in 1..Len(messages) : ~Intact(messages[i]))
    => \A i \in 1..Len(messages) :
         messages[i].conversation_id = response.arg.conversation_id
           => ReturnedWithContent(messages[i],
                IF Intact(messages[i]) THEN SealedFrom(messages[i])
                ELSE DecryptPlaceholder)

\* ------------------------------------------- interleaving properties
SamePair(c, d) ==
  {c.participant1_id, c.participant2_id} = {d.participant1_id, d.participant2_id}

\* C22: under every interleaving of get_or_create_conversation calls there
\* is at most one conversation per unordered pair of users, and no call
\* between two users fails.
C22_OneConversationPerPair ==
  /\ \A c, d \in conversations : SamePair(c, d) => c = d
  /\ response.op = "get_or_create_conversation"
       => response.status_code \notin {500}

\* C23: however a disconnect interleaves with a handler of the same
\* connection, no handler ends in an unhandled error, and once both are
\* done the registry holds nothing for the connection.
C23_DisconnectIsSafe ==
  /\ response.op = "join_conversation" => "raised" \notin DOMAIN response.result
  /\ \A sid \in Sids :
       (sid_state[sid] = "closed" /\ sid \notin DOMAIN inflight)
         => /\ sid \notin RegisteredSids(connected_users, sid_conversations)
            /\ \A m \in sio_rooms : m[1] # sid

\* ------------------------------------------- sender confirmation
\* C31: every successful send_message delivers the new_message event of the
\* message to the sending connection itself, joined to the room or not.
C31_SenderGetsNewMessage ==
  SendSucceeded
    => \E e \in EventsNamed("new_message") :
         e.data.id = response.result.message_id /\ response.sid \in e.to

\* ------------------------------------------- presence properties
\* No connect or disconnect handler is suspended.
NoPresenceHandlerInFlight ==
  \A k \in DOMAIN inflight : inflight[k].op \notin {"connect", "disconnect"}

\* The identities with at least one live connection.
LiveUsers == {u \in DOMAIN users : LiveConnections(u) # {}}

\* C32: whenever no connect or disconnect handler is in flight, a user's
\* stored is_online flag is true iff the user has a live connection, and
\* get_online_users lists exactly the users with a live connection.
C32_OnlineIffLiveConnection ==
  NoPresenceHandlerInFlight
    => /\ \A u \in DOMAIN users : users[u].is_online <=> u \in LiveUsers
       /\ response.op = "get_online_users"
            => {e.user_id : e \in response.result.online_users} = LiveUsers

\* ------------------------------------------- delivery order
\* The place of a stored message in the history get_conversation reads.
PlaceInHistory(m) ==
  LET page == HistoryPage(m.conversation_id, Len(messages), 0)
  IN  CHOOSE i \in 1..Len(page) : page[i].id = m.id

\* The sends of a conversation that are stored and not yet emitted.
AwaitingEmit(conversation_id) ==
  {inflight[k].message : k \in
     {t \in DOMAIN inflight :
        /\ inflight[t].op = "send_message"
        /\ inflight[t].message.conversation_id = conversation_id}}

\* C33: for send_message calls on one conversation handled concurrently,
\* the connections in the room get the new_message events in the order
\* of the stored history: when a message's event reaches the room, no
\* message before it in the history is still to be emitted.
C33_DeliveryInHistoryOrder ==
  (SendSucceeded /\ RecipientsOf("new_message") # {})
    => \A e \in EventsNamed("new_message") :
         \A m \in AwaitingEmit(e.data.conversation_id) :
           \A sent \in {messages[i] : i \in 1..Len(messages)} :
             sent.id = e.data.id => PlaceInHistory(sent) < PlaceInHistory(m)

\* ------------------------------------------- typing authorisation
\* C34: a user_typing or user_stopped_typing event reaches the room of a
\* conversation only when the sending connection's user is a participant
\* of that conversation.
C34_TypingOnlyFromParticipants ==
  (IsTyping(response) /\ \E i \in 1..Len(emitted) : emitted[i].to # {})
    => IsParticipant(response.arg[1], authenticated[response.sid])

\* ------------------------------------------- certificate lookup
\* C35: get_user_certificate serves a certificate only for a user whose
\* certificate_status is 'active' and who has a stored certificate, and
\* answers not-found for every other user; the status it reports is
\* 'expired' when the current time is after notAfter, 'active' otherwise.
C35_ServesOnlyActiveCertificates ==
  response.op = "get_user_certificate"
    => LET t == response.arg
       IN  IF /\ t \in DOMAIN users
              /\ users[t].certificate_status = "active"
              /\ users[t].certificate # None
           THEN /\ response.status_code = 200
                /\ response.body.certificate = users[t].certificate[1]
                /\ response.body.status =
                     IF now > users[t].certificate[1].not_valid_after
                     THEN "expired" ELSE "active"
           ELSE /\ response.status_code = 404
                /\ "body" \notin DOMAIN response

\* C35 witness: an active certificate past its notAfter was served as
\* 'expired'.
C35_Witness ==
  /\ response.op = "get_user_certificate"
  /\ response.status_code = 200
  /\ response.body.status = "expired"
  /\ users[response.arg].certificate_status = "active"

\* ------------------------------------------- history page
\* The rows of a conversation in creation order, without the `offset`
\* newest, cut down to the `limit` newest of the rest.
ExpectedPage(conversation_id, limit, offset) ==
  LET rows == SelectSeq(messages, LAMBDA m : m.conversation_id = conversation_id)
      hi == Len(rows) - offset
      lo == IF hi - limit + 1 > 1 THEN hi - limit + 1 ELSE 1
  IN  IF hi < 1 THEN <<>> ELSE SubSeq(rows, lo, hi)

\* C36: get_conversation returns to a participant the `limit` newest
\* messages after skipping the `offset` newest, by ascending creation time;
\* a non-participant or an unknown conversation id gets an error and no
\* message.
C36_ChronologicalPage ==
  response.op = "get_conversation"
    => LET a == response.arg
           page == ExpectedPage(a.conversation_id, a.limit, a.offset)
       IN  IF IsParticipant(a.conversation_id, response.user)
           THEN /\ response.status_code = 200
                /\ Len(response.body.messages) = Len(page)
                /\ \A i \in 1..Len(page) :
                     response.body.messages[i].id = page[i].id
           ELSE /\ response.status_code \in {403, 404}
                /\ "body" \notin DOMAIN response

\* ------------------------------------------- token properties
IsTokenOfType(token, type) == token.kind = "jwt" /\ token.type = type

\* C37: the socket connect handler and the access-protected REST
\* operations accept a token only if its type is 'access', the refresh
\* endpoint accepts a token only if its type is 'refresh', and the tokens
\* it returns carry the types 'access' and 'refresh'.
C37_TokenTypesNotInterchangeable ==
  /\ (response.op = "connect" /\ response.result = TRUE)
       => (response.arg # None /\ IsTokenOfType(response.arg[1], "access"))
  /\ (response.op = "get_me" /\ response.status_code = 200)
       => IsTokenOfType(response.arg, "access")
  /\ (response.op = "refresh_token" /\ response.status_code = 200)
       => /\ IsTokenOfType(response.arg, "refresh")
          /\ IsTokenOfType(response.body.access_token, "access")
          /\ IsTokenOfType(response.body.refresh_token, "refresh")

\* C37 witness: the refresh token of a registered user was refused by
\* connect.
C37_Witness ==
  /\ response.op = "connect"
  /\ response.result = FALSE
  /\ response.arg # None
  /\ IsTokenOfType(response.arg[1], "refresh")
  /\ response.arg[1].sub \in DOMAIN users

\* ------------------------------------------- login_init properties
\* C38: the response of login_init for an unregistered username has the
\* same fields as for a registered one, with values of the same form: but
\* for the value of the salt it is a response a registered username gets.
C38_NoUsernameEnumeration ==
  (response.op = "login_init"
     /\ \A u \in DOMAIN users : UsernameOf(u) # response.arg)
    => \E u \in DOMAIN users :
         [response.body EXCEPT !.salt = SaltOf(u)]
           = LoginInitResponse([salt |-> SaltOf(u)])
====
